---- MODULE Spec2Model ----
(***************************************************************************)
(* A model of the algorithm visualizers of the repository: the AVL tree    *)
(* (AVLTreeVisualizer.tsx), the BFS/DFS player (App.tsx), the tree         *)
(* reconstruction (Algorithms.tsx), Floyd's cycle detection                *)
(* (CycleDetectionVisualizer), Two-Sum (TwoSumVisualizer) and the binary   *)
(* number generator (BinaryNumbersVisualizer).  Every component has its    *)
(* own variables and its own specification; a component's actions leave    *)
(* the other components' variables unchanged.                              *)
(***************************************************************************)
EXTENDS Integers, Sequences, FiniteSets, TLC

VARIABLES
    \* AVLTreeVisualizer
    avlRoot,        \* useState root: the tree, Nil when empty
    avlIdCounter,   \* useRef idCounter
    avlMessage,     \* useState message (the last setMessage of a handler wins)
    avlOp,          \* the handler that ran last and its input
    avlRots,        \* the rotateLeft/rotateRight calls of the handler that ran last
    \* BFSDFSVisualizer (App.tsx)
    nodes,          \* useState nodes: the node ids, in list order
    edges,          \* useState edges: records [from, to], in list order
    startId,        \* the startId handed to generateStepsBFS / generateStepsDFS
    activeNode,     \* useState activeNode, Null when none
    visited,        \* useState visited
    queueStack,     \* useState queueStack
    algorithm,      \* useState algorithm: "BFS", "DFS" or "none"
    gMessage,       \* useState message
    isPlaying,      \* useState isPlaying; the interval runs exactly while it is TRUE
    stepsRef,       \* useRef stepsRef: the generated trace
    stepIndexRef,   \* useRef stepIndexRef (0-based)
    \* TreeVisualizer (Algorithms.tsx), reconstruction from traversals
    tvRoot,         \* useState root
    tvMode,         \* useState mode: "manual", "pre-in" or "post-in"
    traversalInput1, \* useState traversalInput1, as the tokens typed
    traversalInput2, \* useState traversalInput2, as the tokens typed
    tvIdCounter,    \* useRef idCounter
    tvMessage,      \* useState message
    original,       \* the tree whose walks the user types, without ids
    \* CycleDetectionVisualizer (unnamed/part_003)
    cdList,         \* useState list
    cycleIndex,     \* useState cycleIndex
    cdMessage,      \* useState message
    currentStep,    \* useState currentStep
    cdIsRunning,    \* useState isRunning
    cdResult,       \* useState result: "cycle", "no-cycle" or "null"
    cdIsStopped,    \* useRef isStoppedRef
    cdTimer,        \* the callback of the pending timeout of timeoutRef, or "none"
    cdSlow,         \* slow of the run's closure
    cdFast,         \* fast of the run's closure
    cdIterations,   \* iterations of the run's closure
    cdRunLen,       \* list.length as the run's closure captured it
    cdRunCycle,     \* cycleIndex as the run's closure captured it
    \* TwoSumVisualizer (components/SignIn.tsx)
    tsInput,        \* useState inputValue, as the tokens typed
    tsTargetInput,  \* useState targetValue, as the tokens typed
    tsArray,        \* useState array
    tsHashMap,      \* useState hashMap
    tsMessage,      \* useState message
    tsIsRunning,    \* useState isRunning
    tsResult,       \* useState result
    tsCurrentStep,  \* useState currentStep
    tsIsStopped,    \* useRef isStoppedRef
    tsTimer,        \* the callback of the pending timeout of timeoutRef, or "none"
    tsNumbers,      \* numbers of the run's closure
    tsTarget,       \* target of the run's closure
    tsCurrentIndex, \* currentIndex of the run's closure
    tempHashMap,    \* tempHashMap of the run's closure
    tsScanned,      \* the indices the run's 'Checking index' steps showed, in order
    \* BinaryNumbersVisualizer (unnamed/part_000)
    nValue,         \* useState nValue, as parseInt reads it
    bnQueue,        \* useState queue
    output,         \* useState output
    bnMessage,      \* useState message
    bnCurrentStep,  \* useState currentStep
    bnIsRunning,    \* useState isRunning
    isComplete,     \* useState isComplete
    bnIsStopped,    \* useRef isStoppedRef
    bnTimer,        \* the callback of the pending timeout of timeoutRef, or "none"
    bnN,            \* n of the run's closure
    count,          \* count of the run's closure
    resultQueue,    \* resultQueue of the run's closure
    \* TreeTraversalVisualizer (Algorithms.tsx)
    treeData,       \* the predefined tree
    activeNodeId,   \* useState activeNodeId
    visitedNodes,   \* useState visitedNodes
    ttIsPlaying,    \* useState isPlaying
    ttMessage,      \* useState message
    currentStepIndex, \* useState currentStepIndex
    ttStepsRef,     \* useRef stepsRef
    ttTimer,        \* whether the interval of timerRef is running
    \* ParenthesesMatcher (unnamed/part_002)
    pmInput,        \* useState inputValue, as a sequence of characters
    characters,     \* useState characters
    pmStack,        \* useState stack
    pmMessage,      \* useState stepMessage
    pmIsRunning,    \* useState isRunning
    pmResult,       \* useState result, "null" for null
    pmIsStopped,    \* useRef isStoppedRef
    pmTimer,        \* the callback of the pending timeout of timeoutRef, or "none"
    pmChars,        \* chars of the pending callback's closure
    pmIdx,          \* idx of the pending callback's closure
    currentStack,   \* currentStack of the pending callback's closure
    \* StackVisualizer (components/StackVisualizer.tsx)
    sourceArray,    \* useState sourceArray
    skStack,        \* useState stack
    poppedElements, \* useState poppedElements
    skMessage,      \* useState message, <<"null">> for null
    animatingElement, \* useState animatingElement, Nil for null
    skIdCounter,    \* useRef idCounter
    skTimeouts,     \* the pending 400 ms timeouts of handlePush and handlePop, oldest first
    skMessageTimeouts \* how many 2000 ms timeouts of showMessage are pending

avlVars == <<avlRoot, avlIdCounter, avlMessage, avlOp, avlRots>>

graphVars == <<nodes, edges, startId, activeNode, visited, queueStack, algorithm,
               gMessage, isPlaying, stepsRef, stepIndexRef>>

tvVars == <<tvRoot, tvMode, traversalInput1, traversalInput2, tvIdCounter, tvMessage,
            original>>

cdVars == <<cdList, cycleIndex, cdMessage, currentStep, cdIsRunning, cdResult, cdIsStopped,
            cdTimer, cdSlow, cdFast, cdIterations, cdRunLen, cdRunCycle>>

tsVars == <<tsInput, tsTargetInput, tsArray, tsHashMap, tsMessage, tsIsRunning, tsResult,
            tsCurrentStep, tsIsStopped, tsTimer, tsNumbers, tsTarget, tsCurrentIndex,
            tempHashMap, tsScanned>>

bnVars == <<nValue, bnQueue, output, bnMessage, bnCurrentStep, bnIsRunning, isComplete,
            bnIsStopped, bnTimer, bnN, count, resultQueue>>

ttVars == <<treeData, activeNodeId, visitedNodes, ttIsPlaying, ttMessage, currentStepIndex,
            ttStepsRef, ttTimer>>

pmVars == <<pmInput, characters, pmStack, pmMessage, pmIsRunning, pmResult, pmIsStopped,
            pmTimer, pmChars, pmIdx, currentStack>>

skVars == <<sourceArray, skStack, poppedElements, skMessage, animatingElement,
            skIdCounter, skTimeouts, skMessageTimeouts>>

vars == <<avlVars, graphVars, tvVars, cdVars, tsVars, bnVars, ttVars, pmVars, skVars>>

\* What the actions of one component leave unchanged.
othersAVL == <<graphVars, tvVars, cdVars, tsVars, bnVars, ttVars, pmVars, skVars>>

othersGraph == <<avlVars, tvVars, cdVars, tsVars, bnVars, ttVars, pmVars, skVars>>

othersTV == <<avlVars, graphVars, cdVars, tsVars, bnVars, ttVars, pmVars, skVars>>

othersCD == <<avlVars, graphVars, tvVars, tsVars, bnVars, ttVars, pmVars, skVars>>

othersTS == <<avlVars, graphVars, tvVars, cdVars, bnVars, ttVars, pmVars, skVars>>

othersBN == <<avlVars, graphVars, tvVars, cdVars, tsVars, ttVars, pmVars, skVars>>

othersTT == <<avlVars, graphVars, tvVars, cdVars, tsVars, bnVars, pmVars, skVars>>

othersPM == <<avlVars, graphVars, tvVars, cdVars, tsVars, bnVars, ttVars, skVars>>

othersSK == <<avlVars, graphVars, tvVars, cdVars, tsVars, bnVars, ttVars, pmVars>>

(***************************************************************************)
(* General helpers                                                         *)
(***************************************************************************)
Max(a, b) == IF a >= b THEN a ELSE b

Last(s) == s[Len(s)]

Range(s) == {s[i] : i \in 1..Len(s)}

NoDup(s) == \A i, j \in 1..Len(s) : i # j => s[i] # s[j]

\* The sequences over S of length 0..n.
RECURSIVE SeqsUpTo(_, _)
SeqsUpTo(S, n) ==
    IF n = 0 THEN {<<>>}
    ELSE LET shorter == SeqsUpTo(S, n - 1)
         IN  shorter \cup {Append(s, x) : s \in shorter, x \in S}

(***************************************************************************)
(* AVL tree: src/src/components/AVLTreeVisualizer.tsx                      *)
(***************************************************************************)
\* Bounds of the AVL model.
ValueCount == 4     \* how many distinct values the user may type
MaxId == 5          \* node creations allowed before Reset
PathValueCount == 5 \* distinct values typed when only Insert and Reset are used

\* The values the user types into the input box.
Values == {10 * i : i \in 1..ValueCount}
PathValues == {10 * i : i \in 1..PathValueCount}

\* null
Nil == [nil |-> TRUE]

IsNil(n) == DOMAIN n = {"nil"}

getHeight(n) == IF IsNil(n) THEN 0 ELSE n.height

getBalance(n) == IF IsNil(n) THEN 0 ELSE getHeight(n.left) - getHeight(n.right)

createNode(value, id) ==
    [id |-> id, value |-> value, height |-> 1, left |-> Nil, right |-> Nil]

Recompute(n) == [n EXCEPT !.height = Max(getHeight(n.left), getHeight(n.right)) + 1]

\* rotateRight recomputing x's height before y's.
rotateRight_xFirst(y) ==
    LET x  == y.left
        T2 == x.right
        x2 == Recompute([x EXCEPT !.right = y])
        y2 == Recompute([y EXCEPT !.left = T2])
    IN  [x2 EXCEPT !.right = y2]

rotateRight(y) ==
    LET x  == y.left
        T2 == x.right
        y2 == Recompute([y EXCEPT !.left = T2])
    IN  Recompute([x EXCEPT !.right = y2])

\* rotateLeft without the two height updates.
rotateLeft_staleHeights(x) ==
    LET y  == x.right
        T2 == y.left
    IN  [y EXCEPT !.left = [x EXCEPT !.right = T2]]

rotateLeft(x) ==
    LET y  == x.right
        T2 == y.left
        x2 == Recompute([x EXCEPT !.right = T2])
    IN  Recompute([y EXCEPT !.left = x2])

Rot(dir, n) == [dir |-> dir, at |-> n.value]

\* InsertRebalance answering the Left-Right case with a single right rotation.
InsertRebalance_noDouble(n1, value) ==
    LET node    == [n1 EXCEPT !.height = 1 + Max(getHeight(n1.left), getHeight(n1.right))]
        balance == getBalance(node)
    IN  IF balance > 1
        THEN [node |-> rotateRight(node), msgs |-> << <<"LL">> >>,
              rots |-> <<Rot("right", node)>>]
        ELSE IF balance < -1 /\ value > node.right.value
        THEN [node |-> rotateLeft(node), msgs |-> << <<"RR">> >>,
              rots |-> <<Rot("left", node)>>]
        ELSE IF balance < -1 /\ value < node.right.value
        THEN [node |-> rotateLeft([node EXCEPT !.right = rotateRight(node.right)]),
              msgs |-> << <<"RL">> >>,
              rots |-> <<Rot("right", node.right), Rot("left", node)>>]
        ELSE [node |-> node, msgs |-> <<>>, rots |-> <<>>]

\* InsertRebalance that rotates as soon as the two heights differ.
InsertRebalance_eager(n1, value) ==
    LET node    == [n1 EXCEPT !.height = 1 + Max(getHeight(n1.left), getHeight(n1.right))]
        balance == getBalance(node)
    IN  IF balance > 0 /\ value < node.left.value
        THEN [node |-> rotateRight(node), msgs |-> << <<"LL">> >>,
              rots |-> <<Rot("right", node)>>]
        ELSE IF balance < 0 /\ value > node.right.value
        THEN [node |-> rotateLeft(node), msgs |-> << <<"RR">> >>,
              rots |-> <<Rot("left", node)>>]
        ELSE IF balance > 0 /\ value > node.left.value
        THEN [node |-> rotateRight([node EXCEPT !.left = rotateLeft(node.left)]),
              msgs |-> << <<"LR">> >>,
              rots |-> <<Rot("left", node.left), Rot("right", node)>>]
        ELSE IF balance < 0 /\ value < node.right.value
        THEN [node |-> rotateLeft([node EXCEPT !.right = rotateRight(node.right)]),
              msgs |-> << <<"RL">> >>,
              rots |-> <<Rot("right", node.right), Rot("left", node)>>]
        ELSE [node |-> node, msgs |-> <<>>, rots |-> <<>>]

\* Steps 2-4 of insertNode on a node whose child has been replaced: the new
\* height, the balance factor and the four cases, first match wins.
InsertRebalance(n1, value) ==
    LET node    == [n1 EXCEPT !.height = 1 + Max(getHeight(n1.left), getHeight(n1.right))]
        balance == getBalance(node)
    IN  IF balance > 1 /\ value < node.left.value
        THEN [node |-> rotateRight(node), msgs |-> << <<"LL">> >>,
              rots |-> <<Rot("right", node)>>]
        ELSE IF balance < -1 /\ value > node.right.value
        THEN [node |-> rotateLeft(node), msgs |-> << <<"RR">> >>,
              rots |-> <<Rot("left", node)>>]
        ELSE IF balance > 1 /\ value > node.left.value
        THEN [node |-> rotateRight([node EXCEPT !.left = rotateLeft(node.left)]),
              msgs |-> << <<"LR">> >>,
              rots |-> <<Rot("left", node.left), Rot("right", node)>>]
        ELSE IF balance < -1 /\ value < node.right.value
        THEN [node |-> rotateLeft([node EXCEPT !.right = rotateRight(node.right)]),
              msgs |-> << <<"RL">> >>,
              rots |-> <<Rot("right", node.right), Rot("left", node)>>]
        ELSE [node |-> node, msgs |-> <<>>, rots |-> <<>>]

\* insertNode without the branch for an equal value: equal values go right.
RECURSIVE insertNode_noDupCheck(_, _, _)
insertNode_noDupCheck(node, value, ctr) ==
    IF IsNil(node)
    THEN [node |-> createNode(value, ctr), ctr |-> ctr + 1, msgs |-> <<>>, rots |-> <<>>]
    ELSE IF value < node.value
    THEN LET sub == insertNode_noDupCheck(node.left, value, ctr)
             reb == InsertRebalance([node EXCEPT !.left = sub.node], value)
         IN  [node |-> reb.node, ctr |-> sub.ctr,
              msgs |-> sub.msgs \o reb.msgs, rots |-> sub.rots \o reb.rots]
    ELSE LET sub == insertNode_noDupCheck(node.right, value, ctr)
             reb == InsertRebalance([node EXCEPT !.right = sub.node], value)
         IN  [node |-> reb.node, ctr |-> sub.ctr,
              msgs |-> sub.msgs \o reb.msgs, rots |-> sub.rots \o reb.rots]

\* insertNode(node, value) with the id counter threaded through: the new
\* subtree root, the counter, the setMessage calls and the rotations, in order.
RECURSIVE insertNode(_, _, _)
insertNode(node, value, ctr) ==
    IF IsNil(node)
    THEN [node |-> createNode(value, ctr), ctr |-> ctr + 1, msgs |-> <<>>, rots |-> <<>>]
    ELSE IF value < node.value
    THEN LET sub == insertNode(node.left, value, ctr)
             reb == InsertRebalance([node EXCEPT !.left = sub.node], value)
         IN  [node |-> reb.node, ctr |-> sub.ctr,
              msgs |-> sub.msgs \o reb.msgs, rots |-> sub.rots \o reb.rots]
    ELSE IF value > node.value
    THEN LET sub == insertNode(node.right, value, ctr)
             reb == InsertRebalance([node EXCEPT !.right = sub.node], value)
         IN  [node |-> reb.node, ctr |-> sub.ctr,
              msgs |-> sub.msgs \o reb.msgs, rots |-> sub.rots \o reb.rots]
    ELSE [node |-> node, ctr |-> ctr, msgs |-> << <<"Exists", value>> >>, rots |-> <<>>]

RECURSIVE getMinValueNode(_)
getMinValueNode(node) ==
    IF IsNil(node.left) THEN node ELSE getMinValueNode(node.left)

\* The tail of deleteNodeRecursive (lines 181-201): the new height and the
\* balance-of-child cases.
DeleteRebalance(r1) ==
    LET root    == [r1 EXCEPT !.height = 1 + Max(getHeight(r1.left), getHeight(r1.right))]
        balance == getBalance(root)
    IN  IF balance > 1 /\ getBalance(root.left) >= 0
        THEN [node |-> rotateRight(root), rots |-> <<Rot("right", root)>>]
        ELSE IF balance > 1 /\ getBalance(root.left) < 0
        THEN [node |-> rotateRight([root EXCEPT !.left = rotateLeft(root.left)]),
              rots |-> <<Rot("left", root.left), Rot("right", root)>>]
        ELSE IF balance < -1 /\ getBalance(root.right) <= 0
        THEN [node |-> rotateLeft(root), rots |-> <<Rot("left", root)>>]
        ELSE IF balance < -1 /\ getBalance(root.right) > 0
        THEN [node |-> rotateLeft([root EXCEPT !.right = rotateRight(root.right)]),
              rots |-> <<Rot("right", root.right), Rot("left", root)>>]
        ELSE [node |-> root, rots |-> <<>>]

\* deleteNodeRecursive that copies the in-order successor's value without
\* deleting the successor from the right subtree.
RECURSIVE deleteNodeRecursive_keepSuccessor(_, _)
deleteNodeRecursive_keepSuccessor(root, value) ==
    IF IsNil(root)
    THEN [node |-> Nil, deleted |-> FALSE, rots |-> <<>>]
    ELSE IF value < root.value
    THEN LET sub == deleteNodeRecursive_keepSuccessor(root.left, value)
             reb == DeleteRebalance([root EXCEPT !.left = sub.node])
         IN  [node |-> reb.node, deleted |-> sub.deleted, rots |-> sub.rots \o reb.rots]
    ELSE IF value > root.value
    THEN LET sub == deleteNodeRecursive_keepSuccessor(root.right, value)
             reb == DeleteRebalance([root EXCEPT !.right = sub.node])
         IN  [node |-> reb.node, deleted |-> sub.deleted, rots |-> sub.rots \o reb.rots]
    ELSE IF IsNil(root.left) \/ IsNil(root.right)
    THEN [node |-> IF ~IsNil(root.left) THEN root.left ELSE root.right,
          deleted |-> TRUE, rots |-> <<>>]
    ELSE LET temp == getMinValueNode(root.right)
             reb  == DeleteRebalance([root EXCEPT !.value = temp.value])
         IN  [node |-> reb.node, deleted |-> TRUE, rots |-> reb.rots]

RECURSIVE deleteNodeRecursive(_, _)
deleteNodeRecursive(root, value) ==
    IF IsNil(root)
    THEN [node |-> Nil, deleted |-> FALSE, rots |-> <<>>]
    ELSE IF value < root.value
    THEN LET sub == deleteNodeRecursive(root.left, value)
             reb == DeleteRebalance([root EXCEPT !.left = sub.node])
         IN  [node |-> reb.node, deleted |-> sub.deleted, rots |-> sub.rots \o reb.rots]
    ELSE IF value > root.value
    THEN LET sub == deleteNodeRecursive(root.right, value)
             reb == DeleteRebalance([root EXCEPT !.right = sub.node])
         IN  [node |-> reb.node, deleted |-> sub.deleted, rots |-> sub.rots \o reb.rots]
    ELSE IF IsNil(root.left) \/ IsNil(root.right)
    THEN [node |-> IF ~IsNil(root.left) THEN root.left ELSE root.right,
          deleted |-> TRUE, rots |-> <<>>]
    ELSE LET temp == getMinValueNode(root.right)
             sub  == deleteNodeRecursive(root.right, temp.value)
             reb  == DeleteRebalance([root EXCEPT !.value = temp.value, !.right = sub.node])
         IN  [node |-> reb.node, deleted |-> TRUE, rots |-> sub.rots \o reb.rots]

\* message.startsWith('Insert') on the message of the render the handler
\* closed over.
StartsWithInsert(msg) == msg[1] \in {"Inserting", "Inserted"}

AVLInit ==
    /\ avlRoot = Nil
    /\ avlIdCounter = 0
    /\ avlMessage = <<"Enter">>
    /\ avlOp = <<"none">>
    /\ avlRots = <<>>

\* handleInsert with a number in the input box.
HandleInsert(val) ==
    /\ insertNode(avlRoot, val, avlIdCounter).ctr <= MaxId
    /\ LET r    == insertNode(avlRoot, val, avlIdCounter)
           msgs == << <<"Inserting", val>> >> \o r.msgs
                   \o (IF StartsWithInsert(avlMessage)
                       THEN << <<"Inserted", val>> >> ELSE <<>>)
       IN  /\ avlRoot' = r.node
           /\ avlIdCounter' = r.ctr
           /\ avlMessage' = Last(msgs)
           /\ avlOp' = <<"insert", val>>
           /\ avlRots' = r.rots
    /\ UNCHANGED othersAVL

\* handleDelete that does not look at isDeleted.
HandleDelete_ignoresIsDeleted(val) ==
    LET r == deleteNodeRecursive(avlRoot, val)
    IN  /\ avlRoot' = r.node
        /\ avlMessage' = <<"Deleted", val>>
        /\ avlOp' = <<"delete", val>>
        /\ avlRots' = r.rots
        /\ UNCHANGED <<avlIdCounter, othersAVL>>

\* handleDelete with a number in the input box.
HandleDelete(val) ==
    LET r == deleteNodeRecursive(avlRoot, val)
    IN  /\ avlRoot' = IF r.deleted THEN r.node ELSE avlRoot
        /\ avlMessage' = IF r.deleted THEN <<"Deleted", val>> ELSE <<"NotFound", val>>
        /\ avlOp' = <<"delete", val>>
        /\ avlRots' = r.rots
        /\ UNCHANGED <<avlIdCounter, othersAVL>>

\* handleInsert / handleDelete with an input that parseInt turns into NaN.
HandleInvalid ==
    /\ avlMessage' = <<"Invalid">>
    /\ avlOp' = <<"invalid">>
    /\ avlRots' = <<>>
    /\ UNCHANGED <<avlRoot, avlIdCounter, othersAVL>>

HandleResetAVL ==
    /\ avlRoot' = Nil
    /\ avlIdCounter' = 0
    /\ avlMessage' = <<"Reset">>
    /\ avlOp' = <<"reset">>
    /\ avlRots' = <<>>
    /\ UNCHANGED othersAVL

\* The "Random Tree" button (lines 293-304) is handleReset followed by
\* insertNode calls on a fresh tree: the states it produces are those of
\* HandleResetAVL followed by HandleInsert steps, and it is not a separate
\* action here.
NextAVL ==
    \/ \E val \in Values : HandleInsert(val)
    \/ \E val \in Values : HandleDelete(val)
    \/ HandleInvalid
    \/ HandleResetAVL

\* Insert and Reset only, over one more value than NextAVL: trees of five
\* nodes, where a rotation can happen below the root.
NextAVLInsert ==
    \/ \E val \in PathValues : HandleInsert(val)
    \/ HandleResetAVL

\* Walks and shape predicates used by the AVL claims.
RECURSIVE Inorder(_)
Inorder(n) == IF IsNil(n) THEN <<>> ELSE Inorder(n.left) \o <<n.value>> \o Inorder(n.right)

RECURSIVE TrueHeight(_)
TrueHeight(n) == IF IsNil(n) THEN 0 ELSE 1 + Max(TrueHeight(n.left), TrueHeight(n.right))

RECURSIVE Nodes(_)
Nodes(n) == IF IsNil(n) THEN {} ELSE {n} \cup Nodes(n.left) \cup Nodes(n.right)

StrictlyAscending(s) == \A i \in 1..(Len(s) - 1) : s[i] < s[i + 1]

Abs(x) == IF x < 0 THEN -x ELSE x

\* The tree without ids and heights: values and child links only.
RECURSIVE Shape(_)
Shape(n) ==
    IF IsNil(n) THEN Nil
    ELSE [value |-> n.value, left |-> Shape(n.left), right |-> Shape(n.right)]

Leaf(v) == [value |-> v, left |-> Nil, right |-> Nil]

\* C1: after every AVL insert and delete, from the empty tree, every node has
\* |height(left) - height(right)| <= 1 (true heights) and the inorder walk is
\* strictly ascending.
C1_AVLBalancedAndOrdered ==
    /\ \A n \in Nodes(avlRoot) : Abs(TrueHeight(n.left) - TrueHeight(n.right)) <= 1
    /\ StrictlyAscending(Inorder(avlRoot))

\* A delete that rebalanced a tree of at least three nodes.
C1_Witness ==
    /\ avlOp[1] = "delete"
    /\ avlRots # <<>>
    /\ Cardinality(Nodes(avlRoot)) >= 3

\* C2: after every AVL insert or delete the height stored in every node is
\* 1 + max of the heights stored in its children (0 for null), which is the
\* node's true height and at least 1.
C2_StoredHeights ==
    \A n \in Nodes(avlRoot) :
        /\ n.height = 1 + Max(getHeight(n.left), getHeight(n.right))
        /\ n.height = TrueHeight(n)
        /\ n.height >= 1

\* An operation that has just performed a double rotation.
C2_Witness ==
    /\ Len(avlRots) = 2
    /\ Cardinality(Nodes(avlRoot)) >= 3

\* C10: inserting 10, 20, 30 into an empty tree: the first two inserts
\* rotate nothing, the third performs exactly one rotation, a left rotation at
\* the node holding 10, and leaves root 20 with children 10 and 30, every
\* balance factor 0.
C10_Insert102030 ==
    [][ /\ (avlRoot = Nil /\ avlOp' = <<"insert", 10>>)
            => (Shape(avlRoot') = Leaf(10) /\ avlRots' = <<>>)
        /\ (Shape(avlRoot) = Leaf(10) /\ avlOp' = <<"insert", 20>>)
            => (Shape(avlRoot') = [Leaf(10) EXCEPT !.right = Leaf(20)] /\ avlRots' = <<>>)
        /\ (Shape(avlRoot) = [Leaf(10) EXCEPT !.right = Leaf(20)]
               /\ avlOp' = <<"insert", 30>>)
            => /\ avlRots' = <<[dir |-> "left", at |-> 10]>>
               /\ Shape(avlRoot') = [value |-> 20, left |-> Leaf(10), right |-> Leaf(30)]
               /\ \A n \in Nodes(avlRoot') : getBalance(n) = 0
      ]_vars

\* The tree after 10, 20, 30 were inserted into the empty tree.
C10_Witness ==
    /\ avlOp = <<"insert", 30>>
    /\ avlRots = <<[dir |-> "left", at |-> 10]>>
    /\ Shape(avlRoot) = [value |-> 20, left |-> Leaf(10), right |-> Leaf(30)]
    /\ avlIdCounter = 3

\* The values stored in a tree.
ValuesOf(n) == {x.value : x \in Nodes(n)}

\* C15: inserting a value the tree already holds is a no-op on the tree: the
\* same shape, ids, values and heights, no rotation, no node created and the
\* id counter not advanced.
C15_DuplicateInsertNoOp ==
    [][\A v \in Values :
          (avlOp' = <<"insert", v>> /\ v \in ValuesOf(avlRoot))
          => /\ avlRoot' = avlRoot
             /\ avlIdCounter' = avlIdCounter
             /\ avlRots' = <<>>]_vars

\* A duplicate has just been inserted into a tree of three or more nodes.
C15_Witness ==
    /\ avlOp[1] = "insert"
    /\ avlMessage = <<"Exists", avlOp[2]>>
    /\ Cardinality(Nodes(avlRoot)) >= 3

\* C16: after an insert of a value the tree already holds, whatever was done
\* before, the message says that the value already exists.
C16_DuplicateInsertMessage ==
    [][\A v \in Values :
          (avlOp' = <<"insert", v>> /\ v \in ValuesOf(avlRoot))
          => avlMessage' = <<"Exists", v>>]_vars

\* C17: deleting a value the tree does not hold leaves the tree and the id
\* counter as they were (deleteNodeRecursive returns the tree it was given,
\* without a rotation) and the message says the value was not found.
C17_DeleteAbsentNoOp ==
    [][\A v \in Values :
          (avlOp' = <<"delete", v>> /\ v \notin ValuesOf(avlRoot))
          => /\ avlRoot' = avlRoot
             /\ avlIdCounter' = avlIdCounter
             /\ avlMessage' = <<"NotFound", v>>
             /\ deleteNodeRecursive(avlRoot, v) =
                   [node |-> avlRoot, deleted |-> FALSE, rots |-> <<>>]]_vars

\* An absent value has just been deleted from a tree of three or more nodes.
C17_Witness ==
    /\ avlOp[1] = "delete"
    /\ avlMessage = <<"NotFound", avlOp[2]>>
    /\ Cardinality(Nodes(avlRoot)) >= 3

\* C28: every insert of v leaves the tree with the values it had and v, every
\* delete of v with the values it had except v, each value in one node only
\* (the in-order walk lists every node and repeats no value), whatever
\* rotations and in-order-successor replacements the step made.
C28_ValueSet ==
    [][avlOp'[1] \in {"insert", "delete"} =>
          LET v == avlOp'[2]
              before == Range(Inorder(avlRoot))
              after == Inorder(avlRoot')
          IN /\ NoDup(after)
             /\ Range(after) = IF avlOp'[1] = "insert"
                                THEN before \cup {v}
                                ELSE before \ {v}]_vars

\* The root of a tree of three nodes, with two children, was deleted: the
\* node now holds its in-order successor and has one child left.
C28_Witness ==
    /\ avlOp = <<"delete", 20>>
    /\ avlMessage = <<"Deleted", 20>>
    /\ avlIdCounter = 3
    /\ ~IsNil(avlRoot)
    /\ avlRoot.id = 0
    /\ avlRoot.value = 30
    /\ ~IsNil(avlRoot.left)
    /\ IsNil(avlRoot.right)

\* The setMessage calls of one insertNode call that announce a rotation case.
RebalanceCases(msgs) == SelectSeq(msgs, LAMBDA m : m[1] \in {"LL", "RR", "LR", "RL"})

\* C38: one insert into a balanced tree matches a rebalancing case at no more
\* than one node of the insertion path, so it makes no rotation, one single
\* rotation or the two rotations of one double case; every ancestor above the
\* rotated node returns unchanged and every node ends with |balance| <= 1.
C38_OneRebalancePerInsert ==
    [][avlOp'[1] = "insert" =>
          LET r     == insertNode(avlRoot, avlOp'[2], avlIdCounter)
              cases == RebalanceCases(r.msgs)
          IN  /\ Len(cases) <= 1
              /\ avlRots' = r.rots
              /\ Len(r.rots) = (IF cases = <<>> THEN 0
                                ELSE IF cases[1][1] \in {"LL", "RR"} THEN 1 ELSE 2)
              /\ \A n \in Nodes(avlRoot') : Abs(getBalance(n)) <= 1]_vars

\* An insert into a four-node tree whose double rotation was made at a child
\* of the root: the rotated node ends as a grandchild of the root.
C38_Witness ==
    /\ avlOp[1] = "insert"
    /\ Len(avlRots) = 2
    /\ Cardinality(Nodes(avlRoot)) = 5
    /\ avlRots[2].at \notin {avlRoot.value, avlRoot.left.value, avlRoot.right.value}

(***************************************************************************)
(* BFS / DFS player: src/src/App.tsx (BFSDFSVisualizer); the same code     *)
(* over a fixed graph is in src/src/components/GraphTraversalVisualizer.tsx *)
(***************************************************************************)
\* Bound of the graph model: graphs of 1..MaxNodes nodes.
MaxNodes == 4

\* null, for a node id
Null == -1

\* The decimal digits of n, most significant first: what sort() compares.
RECURSIVE DecDigits(_)
DecDigits(n) == IF n < 10 THEN <<n>> ELSE Append(DecDigits(n \div 10), n % 10)

\* s before t in the order of their code units.
RECURSIVE LexLess(_, _)
LexLess(s, t) ==
    IF s = <<>> THEN t # <<>>
    ELSE IF t = <<>> THEN FALSE
    ELSE IF Head(s) # Head(t) THEN Head(s) < Head(t)
    ELSE LexLess(Tail(s), Tail(t))

\* The order of Array.prototype.sort() without a comparator: by the
\* elements' strings.
SortBefore(a, b) == LexLess(DecDigits(a), DecDigits(b))

RECURSIVE InsertSorted(_, _)
InsertSorted(s, x) ==
    IF s = <<>> THEN <<x>>
    ELSE IF SortBefore(x, Head(s)) THEN <<x>> \o s
    ELSE <<Head(s)>> \o InsertSorted(Tail(s), x)

\* arr.sort(): stable, ascending in SortBefore.
RECURSIVE SortInto(_, _)
SortInto(acc, s) ==
    IF s = <<>> THEN acc ELSE SortInto(InsertSorted(acc, Head(s)), Tail(s))

DefaultSort(s) == SortInto(<<>>, s)

\* adj[e.from].push(e.to) or adj[e.to].push(e.from) on an id that is no node
\* is a push on undefined: a TypeError.
AdjThrows(ns, es) ==
    \E i \in 1..Len(es) : es[i].from \notin Range(ns) \/ es[i].to \notin Range(ns)

RECURSIVE AddEdges(_, _)
AddEdges(adj, es) ==
    IF es = <<>> THEN adj
    ELSE LET e  == Head(es)
             a1 == [adj EXCEPT ![e.from] = Append(@, e.to)]
             a2 == [a1 EXCEPT ![e.to] = Append(@, e.from)]
         IN  AddEdges(a2, Tail(es))

\* getAdjList pushing each edge in one direction only.
RECURSIVE AddEdgesOneWay(_, _)
AddEdgesOneWay(adj, es) ==
    IF es = <<>> THEN adj
    ELSE AddEdgesOneWay([adj EXCEPT ![Head(es).from] = Append(@, Head(es).to)], Tail(es))

getAdjList_oneWay(ns, es) ==
    LET pushed == AddEdgesOneWay([k \in Range(ns) |-> <<>>], es)
    IN  [k \in Range(ns) |-> DefaultSort(pushed[k])]

\* getAdjList, for node and edge lists on which it does not throw.
getAdjList(ns, es) ==
    LET pushed == AddEdges([k \in Range(ns) |-> <<>>], es)
    IN  [k \in Range(ns) |-> DefaultSort(pushed[k])]

Step(active, vis, struct, msg) ==
    [active |-> active, visited |-> vis, struct |-> struct, msg |-> msg]

\* adj[curr] || []
NeighborsOf(adj, curr) == IF curr \in DOMAIN adj THEN adj[curr] ELSE <<>>

\* q.shift()
Shift(q) == [val |-> Head(q), rest |-> Tail(q)]

\* stack.pop() taking the bottom instead of the top.
Pop_bottom(stack) == [val |-> Head(stack), rest |-> Tail(stack)]

\* stack.pop()
Pop(stack) == [val |-> stack[Len(stack)], rest |-> SubSeq(stack, 1, Len(stack) - 1)]

\* The for loop of generateStepsBFS (lines 127-134) from neighbors[i] on.
RECURSIVE BFSNeighbors(_, _, _, _)
BFSNeighbors(neighbors, i, curr, st) ==
    IF i > Len(neighbors) THEN st
    ELSE LET neighbor == neighbors[i]
         IN  IF neighbor \notin st.visitedSet
             THEN LET vl == Append(st.visitedList, neighbor)
                      q  == Append(st.q, neighbor)
                  IN  BFSNeighbors(neighbors, i + 1, curr,
                          [q |-> q, visitedSet |-> st.visitedSet \cup {neighbor},
                           visitedList |-> vl,
                           steps |-> Append(st.steps,
                                            Step(curr, vl, q, <<"Enqueued", neighbor>>))])
             ELSE BFSNeighbors(neighbors, i + 1, curr, st)

\* The while loop of generateStepsBFS (lines 122-135) and the final push.
RECURSIVE BFSLoop(_, _)
BFSLoop(adj, st) ==
    IF st.q = <<>>
    THEN Append(st.steps, Step(Null, st.visitedList, <<>>, <<"BFSComplete">>))
    ELSE LET sh  == Shift(st.q)
             st1 == [st EXCEPT !.q = sh.rest,
                               !.steps = Append(@, Step(sh.val, st.visitedList, sh.rest,
                                                        <<"Dequeued", sh.val>>))]
         IN  BFSLoop(adj, BFSNeighbors(NeighborsOf(adj, sh.val), 1, sh.val, st1))

\* generateStepsBFS that does not put the start node into the visited set.
generateStepsBFS_startUnmarked(ns, es, start) ==
    BFSLoop(getAdjList(ns, es),
            [q |-> <<start>>, visitedSet |-> {}, visitedList |-> <<start>>,
             steps |-> <<Step(Null, <<start>>, <<start>>, <<"StartBFS", start>>)>>])

\* generateStepsBFS starting with an empty queue.
generateStepsBFS_emptyQueue(ns, es, start) ==
    BFSLoop(getAdjList(ns, es),
            [q |-> <<>>, visitedSet |-> {start}, visitedList |-> <<start>>,
             steps |-> <<Step(Null, <<start>>, <<start>>, <<"StartBFS", start>>)>>])

generateStepsBFS(ns, es, start) ==
    BFSLoop(getAdjList(ns, es),
            [q |-> <<start>>, visitedSet |-> {start}, visitedList |-> <<start>>,
             steps |-> <<Step(Null, <<start>>, <<start>>, <<"StartBFS", start>>)>>])

\* The for loop of generateStepsDFS (lines 161-167) from neighbors[i] down.
RECURSIVE DFSNeighbors(_, _, _, _)
DFSNeighbors(neighbors, i, curr, st) ==
    IF i < 1 THEN st
    ELSE LET neighbor == neighbors[i]
         IN  IF neighbor \notin st.visitedSet
             THEN LET stack == Append(st.stack, neighbor)
                  IN  DFSNeighbors(neighbors, i - 1, curr,
                          [st EXCEPT !.stack = stack,
                                     !.steps = Append(@, Step(curr, st.visitedList, stack,
                                                              <<"Push", neighbor>>))])
             ELSE DFSNeighbors(neighbors, i - 1, curr, st)

\* The while loop of generateStepsDFS (lines 152-171) and the final push.
RECURSIVE DFSLoop(_, _)
DFSLoop(adj, st) ==
    IF st.stack = <<>>
    THEN Append(st.steps, Step(Null, st.visitedList, <<>>, <<"DFSComplete">>))
    ELSE LET p    == Pop(st.stack)
             curr == p.val
         IN  IF curr \notin st.visitedSet
             THEN LET vl  == Append(st.visitedList, curr)
                      st1 == [stack |-> p.rest, visitedSet |-> st.visitedSet \cup {curr},
                              visitedList |-> vl,
                              steps |-> Append(st.steps,
                                               Step(curr, vl, p.rest, <<"Popped", curr>>))]
                      nbs == NeighborsOf(adj, curr)
                  IN  DFSLoop(adj, DFSNeighbors(nbs, Len(nbs), curr, st1))
             ELSE DFSLoop(adj, [st EXCEPT !.stack = p.rest,
                                          !.steps = Append(@, Step(curr, st.visitedList, p.rest,
                                                                   <<"Skip", curr>>))])

generateStepsDFS(ns, es, start) ==
    DFSLoop(getAdjList(ns, es),
            [stack |-> <<start>>, visitedSet |-> {}, visitedList |-> <<>>,
             steps |-> <<Step(Null, <<>>, <<start>>, <<"StartDFS", start>>)>>])

\* defaultNodes (ids) and defaultEdges.
defaultNodes == <<0, 1, 2, 3, 4, 5, 6>>

Edge(a, b) == [from |-> a, to |-> b]

defaultEdges ==
    <<Edge(0, 1), Edge(0, 2), Edge(1, 3), Edge(1, 4), Edge(2, 5), Edge(4, 5),
      Edge(4, 6), Edge(3, 6)>>

GraphInit ==
    /\ nodes = defaultNodes
    /\ edges = defaultEdges
    /\ startId = 0
    /\ activeNode = Null
    /\ visited = <<>>
    /\ queueStack = <<>>
    /\ algorithm = "none"
    /\ gMessage = <<"Select">>
    /\ isPlaying = FALSE
    /\ stepsRef = <<>>
    /\ stepIndexRef = 0

\* reset()
ResetGraph ==
    /\ isPlaying' = FALSE
    /\ activeNode' = Null
    /\ visited' = <<>>
    /\ queueStack' = <<>>
    /\ algorithm' = "none"
    /\ gMessage' = <<"Select">>
    /\ UNCHANGED <<nodes, edges, startId, stepsRef, stepIndexRef, othersGraph>>

\* startAlgo(type); the buttons are disabled while isPlaying.  The code
\* passes 0 as startId (line 179); here the start is the startId drawn with
\* the graph, 0 in the component's own initial state.  When getAdjList throws,
\* the handler ends after reset() and setAlgorithm(type).
StartAlgo(type) ==
    /\ ~isPlaying
    /\ activeNode' = Null
    /\ visited' = <<>>
    /\ queueStack' = <<>>
    /\ algorithm' = type
    /\ gMessage' = <<"Select">>
    /\ IF AdjThrows(nodes, edges)
       THEN /\ isPlaying' = FALSE
            /\ UNCHANGED <<stepsRef, stepIndexRef>>
       ELSE /\ stepsRef' = IF type = "BFS"
                           THEN generateStepsBFS(nodes, edges, startId)
                           ELSE generateStepsDFS(nodes, edges, startId)
            /\ stepIndexRef' = 0
            /\ isPlaying' = TRUE
    /\ UNCHANGED <<nodes, edges, startId, othersGraph>>

\* nextStep() that does not advance stepIndexRef.
NextStep_noAdvance ==
    /\ isPlaying
    /\ IF stepIndexRef >= Len(stepsRef)
       THEN /\ isPlaying' = FALSE
            /\ UNCHANGED <<activeNode, visited, queueStack, gMessage, stepIndexRef>>
       ELSE LET step == stepsRef[stepIndexRef + 1]
            IN  /\ activeNode' = step.active
                /\ visited' = step.visited
                /\ queueStack' = step.struct
                /\ gMessage' = step.msg
                /\ UNCHANGED <<stepIndexRef, isPlaying>>
    /\ UNCHANGED <<nodes, edges, startId, algorithm, stepsRef, othersGraph>>

\* A tick of the interval of the useEffect: nextStep().
NextStep ==
    /\ isPlaying
    /\ IF stepIndexRef >= Len(stepsRef)
       THEN /\ isPlaying' = FALSE
            /\ UNCHANGED <<activeNode, visited, queueStack, gMessage, stepIndexRef>>
       ELSE LET step == stepsRef[stepIndexRef + 1]
            IN  /\ activeNode' = step.active
                /\ visited' = step.visited
                /\ queueStack' = step.struct
                /\ gMessage' = step.msg
                /\ stepIndexRef' = stepIndexRef + 1
                /\ UNCHANGED isPlaying
    /\ UNCHANGED <<nodes, edges, startId, algorithm, stepsRef, othersGraph>>

\* The Play / Pause button: setIsPlaying(!isPlaying).
TogglePlay ==
    /\ isPlaying' = ~isPlaying
    /\ UNCHANGED <<nodes, edges, startId, activeNode, visited, queueStack, algorithm,
                   gMessage, stepsRef, stepIndexRef, othersGraph>>

\* The node counts of handleRandomGraph: Math.floor(Math.random() * 4) + 5
\* gives 5..8; the model takes MinRandomNodes..MaxRandomNodes.
MinRandomNodes == 5

MaxRandomNodes == 5

\* The extra edges tried: Math.floor(Math.random() * 3) + 1 gives 1..3; the
\* model takes 1..MaxExtraEdges.
MaxExtraEdges == 1

\* The spanning tree loop: node i gets an edge from parent[i], a node
\* Math.floor(Math.random() * i) of 0..i-1.
SpanningTree(parent, nodeCount) == [i \in 1..(nodeCount - 1) |-> Edge(parent[i], i)]

\* The choices Math.random() can make for the parents.
ParentChoices(nodeCount) ==
    {p \in [1..(nodeCount - 1) -> 0..(nodeCount - 2)] : \A i \in 1..(nodeCount - 1) : p[i] < i}

\* The test on an extra edge looking for the same direction only.
ExtraEdgeAllowed_oneDirection(es, from, to) ==
    /\ from # to
    /\ ~\E i \in 1..Len(es) : es[i].from = from /\ es[i].to = to

\* from !== to && !newEdges.some(e => ...)
ExtraEdgeAllowed(es, from, to) ==
    /\ from # to
    /\ ~\E i \in 1..Len(es) :
            \/ es[i].from = from /\ es[i].to = to
            \/ es[i].from = to /\ es[i].to = from

\* The extra edges loop over the pairs <<from, to>> Math.random() gave.
RECURSIVE AddExtraEdges(_, _)
AddExtraEdges(es, picks) ==
    IF picks = <<>> THEN es
    ELSE LET from == Head(picks)[1]
             to   == Head(picks)[2]
         IN  AddExtraEdges(IF ExtraEdgeAllowed(es, from, to)
                           THEN Append(es, Edge(from, to)) ELSE es,
                           Tail(picks))

\* The choices Math.random() can make for the extra edges.
ExtraChoices(nodeCount) ==
    SeqsUpTo((0..(nodeCount - 1)) \X (0..(nodeCount - 1)), MaxExtraEdges) \ {<<>>}

\* handleRandomGraph with the given random choices; the button is disabled
\* while isPlaying.
HandleRandomGraph(nodeCount, parent, picks) ==
    /\ ~isPlaying
    /\ isPlaying' = FALSE
    /\ activeNode' = Null
    /\ visited' = <<>>
    /\ queueStack' = <<>>
    /\ algorithm' = "none"
    /\ nodes' = [i \in 1..nodeCount |-> i - 1]
    /\ edges' = AddExtraEdges(SpanningTree(parent, nodeCount), picks)
    /\ gMessage' = <<"RandomGenerated">>
    /\ UNCHANGED <<startId, stepsRef, stepIndexRef, othersGraph>>

\* The Random Graph button on the component as constructed, then BFS or DFS
\* on the graph it made.  handleRandomGraph reads nothing of the state, so
\* the graphs it makes from any other state are the same ones.
NextRandom ==
    \/ /\ GraphInit
       /\ \E nodeCount \in MinRandomNodes..MaxRandomNodes :
             \E parent \in ParentChoices(nodeCount) :
                \E picks \in ExtraChoices(nodeCount) :
                   HandleRandomGraph(nodeCount, parent, picks)
    \/ \E type \in {"BFS", "DFS"} : StartAlgo(type)

\* The player on the graph the component starts with.
NextGraph ==
    \/ \E type \in {"BFS", "DFS"} : StartAlgo(type)
    \/ NextStep
    \/ TogglePlay
    \/ ResetGraph

\* Trace generation alone: a traversal is started and reset, no tick plays it.
NextTraversal ==
    \/ \E type \in {"BFS", "DFS"} : StartAlgo(type)
    \/ ResetGraph

\* All pairs a < b of the ids 0..n-1, as edges in the order of (a, b).
RECURSIVE EdgeSeqFrom(_, _, _, _)
EdgeSeqFrom(E, a, b, n) ==
    IF a >= n THEN <<>>
    ELSE IF b >= n THEN EdgeSeqFrom(E, a + 1, a + 2, n)
    ELSE (IF <<a, b>> \in E THEN <<Edge(a, b)>> ELSE <<>>) \o EdgeSeqFrom(E, a, b + 1, n)

\* Any undirected graph on the ids 0..n-1, 1 <= n <= MaxNodes, and any start
\* node of it: the inputs of generateStepsBFS and generateStepsDFS.
AnyGraphInit ==
    /\ \E n \in 1..MaxNodes :
         /\ nodes = [i \in 1..n |-> i - 1]
         /\ \E E \in SUBSET {<<a, b>> \in (0..(n - 1)) \X (0..(n - 1)) : a < b} :
                edges = EdgeSeqFrom(E, 0, 1, n)
         /\ startId \in 0..(n - 1)
    /\ activeNode = Null
    /\ visited = <<>>
    /\ queueStack = <<>>
    /\ algorithm = "none"
    /\ gMessage = <<"Select">>
    /\ isPlaying = FALSE
    /\ stepsRef = <<>>
    /\ stepIndexRef = 0

\* The graph as the claims see it: neighbours, reachability and distance,
\* read from the edge list.
Adjacent(v) ==
    {edges[i].to : i \in {j \in 1..Len(edges) : edges[j].from = v}}
    \cup {edges[i].from : i \in {j \in 1..Len(edges) : edges[j].to = v}}

RECURSIVE Within(_)
Within(k) ==
    IF k = 0 THEN {startId}
    ELSE Within(k - 1) \cup UNION {Adjacent(v) : v \in Within(k - 1)}

Reachable == Within(Len(nodes))

\* Shortest-path distance from startId, for a reachable node.
Dist(v) == CHOOSE k \in 0..Len(nodes) : v \in Within(k) /\ \A j \in 0..(k - 1) : v \notin Within(j)

\* The preorder of the recursive depth-first search that takes each node's
\* neighbours in the order of its adjacency list.
RECURSIVE RecDFS(_, _, _)
RECURSIVE RecDFSEach(_, _, _, _)
RecDFS(adj, u, seen) ==
    IF u \in Range(seen) THEN seen
    ELSE RecDFSEach(adj, NeighborsOf(adj, u), 1, Append(seen, u))

RecDFSEach(adj, nbs, i, seen) ==
    IF i > Len(nbs) THEN seen
    ELSE RecDFSEach(adj, nbs, i + 1, RecDFS(adj, nbs[i], seen))

IsBFSTrace(steps) == steps # <<>> /\ steps[1].msg[1] = "StartBFS"

IsDFSTrace(steps) == steps # <<>> /\ steps[1].msg[1] = "StartDFS"

\* The nodes of the 'Popped ... Mark as visited' steps, in trace order.
RECURSIVE PoppedNodes(_)
PoppedNodes(steps) ==
    IF steps = <<>> THEN <<>>
    ELSE (IF Head(steps).msg[1] = "Popped" THEN <<Head(steps).active>> ELSE <<>>)
         \o PoppedNodes(Tail(steps))

\* C3: the visited list of a BFS trace is in non-decreasing shortest-path
\* distance from the start, and the last step's visited list holds exactly
\* the nodes reachable from the start.
C3_BFSOrder ==
    IsBFSTrace(stepsRef) =>
        LET final == Last(stepsRef).visited
        IN  /\ Range(final) = Reachable
            /\ \A i, j \in 1..Len(final) : i < j => Dist(final[i]) <= Dist(final[j])

\* A BFS trace over a graph with a node at distance 2 and an unreachable node.
C3_Witness ==
    /\ IsBFSTrace(stepsRef)
    /\ \E v \in Reachable : Dist(v) >= 2
    /\ Reachable # Range(nodes)
    /\ startId # 0

\* C4: the nodes a DFS trace marks visited, in order, are the preorder of
\* the recursive depth-first search over the same adjacency lists, and they
\* are exactly the nodes reachable from the start.
C4_DFSPreorder ==
    IsDFSTrace(stepsRef) =>
        /\ PoppedNodes(stepsRef) = RecDFS(getAdjList(nodes, edges), startId, <<>>)
        /\ Range(PoppedNodes(stepsRef)) = Reachable

\* A DFS trace that popped an already visited node (a duplicate stack entry).
C4_Witness ==
    /\ IsDFSTrace(stepsRef)
    /\ \E i \in 1..Len(stepsRef) : stepsRef[i].msg[1] = "Skip"
    /\ Len(PoppedNodes(stepsRef)) >= 3

\* The nodes joined to a node of S by a path of edges.
RECURSIVE ReachedFrom(_)
ReachedFrom(S) ==
    LET more == S \cup UNION {Adjacent(v) : v \in S}
    IN  IF more = S THEN S ELSE ReachedFrom(more)

MaxTreeValues == 4

\* What parseInt returns for a token that does not start with a number.
NaN == -1

Min(a, b) == IF a <= b THEN a ELSE b

\* arr.slice(a, b) for 0 <= a, 0 <= b.
Slice(s, a, b) ==
    LET lo == Min(a, Len(s))
        hi == Min(b, Len(s))
    IN  IF lo >= hi THEN <<>> ELSE SubSeq(s, lo + 1, hi)

\* arr.indexOf(v): the first 0-based index of v, -1 when absent.
indexOf(s, v) ==
    IF \E i \in 1..Len(s) : s[i] = v
    THEN (CHOOSE i \in 1..Len(s) : s[i] = v /\ \A j \in 1..(i - 1) : s[j] # v) - 1
    ELSE -1

\* split(/[ ,]+/).map(parseInt).filter(n => !isNaN(n)) on the tokens typed.
ParseList(tokens) == SelectSeq(tokens, LAMBDA t : t # NaN)

TreeNode(id, value, left, right) ==
    [id |-> id, value |-> value, left |-> left, right |-> right]

\* buildFromPreIn cutting the left preorder part one element early.
RECURSIVE buildFromPreIn_shifted(_, _, _)
buildFromPreIn_shifted(pre, inOrder, ctr) ==
    IF Len(pre) = 0 \/ Len(inOrder) = 0
    THEN [ok |-> TRUE, node |-> Nil, ctr |-> ctr]
    ELSE LET rootVal   == pre[1]
             rootIndex == indexOf(inOrder, rootVal)
         IN  IF rootIndex = -1
             THEN [ok |-> FALSE, node |-> Nil, ctr |-> ctr]
             ELSE LET leftIn   == Slice(inOrder, 0, rootIndex)
                      rightIn  == Slice(inOrder, rootIndex + 1, Len(inOrder))
                      leftPre  == Slice(pre, 1, Len(leftIn))
                      rightPre == Slice(pre, Len(leftIn), Len(pre))
                      l        == buildFromPreIn_shifted(leftPre, leftIn, ctr + 1)
                      r        == buildFromPreIn_shifted(rightPre, rightIn, l.ctr)
                  IN  IF ~l.ok THEN l
                      ELSE IF ~r.ok THEN r
                      ELSE [ok |-> TRUE, node |-> TreeNode(ctr, rootVal, l.node, r.node),
                            ctr |-> r.ctr]

\* buildFromPreIn with idCounter threaded through; ok is FALSE when it throws
\* "Node not found in Inorder" (the counter keeps what was consumed).
RECURSIVE buildFromPreIn(_, _, _)
buildFromPreIn(pre, inOrder, ctr) ==
    IF Len(pre) = 0 \/ Len(inOrder) = 0
    THEN [ok |-> TRUE, node |-> Nil, ctr |-> ctr]
    ELSE LET rootVal   == pre[1]
             rootIndex == indexOf(inOrder, rootVal)
         IN  IF rootIndex = -1
             THEN [ok |-> FALSE, node |-> Nil, ctr |-> ctr]
             ELSE LET leftIn   == Slice(inOrder, 0, rootIndex)
                      rightIn  == Slice(inOrder, rootIndex + 1, Len(inOrder))
                      leftPre  == Slice(pre, 1, 1 + Len(leftIn))
                      rightPre == Slice(pre, 1 + Len(leftIn), Len(pre))
                      l        == buildFromPreIn(leftPre, leftIn, ctr + 1)
                      r        == buildFromPreIn(rightPre, rightIn, l.ctr)
                  IN  IF ~l.ok THEN l
                      ELSE IF ~r.ok THEN r
                      ELSE [ok |-> TRUE, node |-> TreeNode(ctr, rootVal, l.node, r.node),
                            ctr |-> r.ctr]

\* buildFromPostIn hanging the left subtree on the right and the right one
\* on the left.
RECURSIVE buildFromPostIn_swapped(_, _, _)
buildFromPostIn_swapped(post, inOrder, ctr) ==
    IF Len(post) = 0 \/ Len(inOrder) = 0
    THEN [ok |-> TRUE, node |-> Nil, ctr |-> ctr]
    ELSE LET rootVal   == post[Len(post)]
             rootIndex == indexOf(inOrder, rootVal)
         IN  IF rootIndex = -1
             THEN [ok |-> FALSE, node |-> Nil, ctr |-> ctr]
             ELSE LET leftIn    == Slice(inOrder, 0, rootIndex)
                      rightIn   == Slice(inOrder, rootIndex + 1, Len(inOrder))
                      leftPost  == Slice(post, 0, Len(leftIn))
                      rightPost == Slice(post, Len(leftIn), Len(post) - 1)
                      l         == buildFromPostIn_swapped(leftPost, leftIn, ctr + 1)
                      r         == buildFromPostIn_swapped(rightPost, rightIn, l.ctr)
                  IN  IF ~l.ok THEN l
                      ELSE IF ~r.ok THEN r
                      ELSE [ok |-> TRUE, node |-> TreeNode(ctr, rootVal, r.node, l.node),
                            ctr |-> r.ctr]

\* buildFromPostIn returning no node, instead of throwing, when the root
\* value is not in the inorder slice.
RECURSIVE buildFromPostIn_skipMissing(_, _, _)
buildFromPostIn_skipMissing(post, inOrder, ctr) ==
    IF Len(post) = 0 \/ Len(inOrder) = 0
    THEN [ok |-> TRUE, node |-> Nil, ctr |-> ctr]
    ELSE LET rootVal   == post[Len(post)]
             rootIndex == indexOf(inOrder, rootVal)
         IN  IF rootIndex = -1
             THEN [ok |-> TRUE, node |-> Nil, ctr |-> ctr]
             ELSE LET leftIn    == Slice(inOrder, 0, rootIndex)
                      rightIn   == Slice(inOrder, rootIndex + 1, Len(inOrder))
                      leftPost  == Slice(post, 0, Len(leftIn))
                      rightPost == Slice(post, Len(leftIn), Len(post) - 1)
                      l         == buildFromPostIn_skipMissing(leftPost, leftIn, ctr + 1)
                      r         == buildFromPostIn_skipMissing(rightPost, rightIn, l.ctr)
                  IN  [ok |-> TRUE, node |-> TreeNode(ctr, rootVal, l.node, r.node),
                       ctr |-> r.ctr]

RECURSIVE buildFromPostIn(_, _, _)
buildFromPostIn(post, inOrder, ctr) ==
    IF Len(post) = 0 \/ Len(inOrder) = 0
    THEN [ok |-> TRUE, node |-> Nil, ctr |-> ctr]
    ELSE LET rootVal   == post[Len(post)]
             rootIndex == indexOf(inOrder, rootVal)
         IN  IF rootIndex = -1
             THEN [ok |-> FALSE, node |-> Nil, ctr |-> ctr]
             ELSE LET leftIn    == Slice(inOrder, 0, rootIndex)
                      rightIn   == Slice(inOrder, rootIndex + 1, Len(inOrder))
                      leftPost  == Slice(post, 0, Len(leftIn))
                      rightPost == Slice(post, Len(leftIn), Len(post) - 1)
                      l         == buildFromPostIn(leftPost, leftIn, ctr + 1)
                      r         == buildFromPostIn(rightPost, rightIn, l.ctr)
                  IN  IF ~l.ok THEN l
                      ELSE IF ~r.ok THEN r
                      ELSE [ok |-> TRUE, node |-> TreeNode(ctr, rootVal, l.node, r.node),
                            ctr |-> r.ctr]

\* The for loop of lines 393-398 looking at the first value of arr1 only.
FirstMissing_firstOnly(arr1, arr2) ==
    IF arr1 # <<>> /\ arr1[1] \notin Range(arr2) THEN arr1[1] ELSE NaN

\* The first value of arr1 that set2 does not hold, NaN when there is none
\* (the for loop of lines 393-398).
FirstMissing(arr1, arr2) ==
    IF \E i \in 1..Len(arr1) : arr1[i] \notin Range(arr2)
    THEN arr1[CHOOSE i \in 1..Len(arr1) :
                 /\ arr1[i] \notin Range(arr2)
                 /\ \A j \in 1..(i - 1) : arr1[j] \in Range(arr2)]
    ELSE NaN

TVInit ==
    /\ tvRoot = Nil
    /\ tvMode = "manual"
    /\ traversalInput1 = <<>>
    /\ traversalInput2 = <<>>
    /\ tvIdCounter = 0
    /\ tvMessage = <<"CreateRoot">>
    /\ original = Nil

\* The mode selector: setMode, handleReset, setMessage.
SetMode(m) ==
    /\ tvMode' = m
    /\ tvRoot' = Nil
    /\ traversalInput1' = <<>>
    /\ traversalInput2' = <<>>
    /\ tvIdCounter' = 0
    /\ tvMessage' = <<"ModeChanged">>
    /\ UNCHANGED <<original, othersTV>>

\* handleReset of the tree visualizer.
HandleResetTV ==
    /\ tvRoot' = Nil
    /\ traversalInput1' = <<>>
    /\ traversalInput2' = <<>>
    /\ tvIdCounter' = 0
    /\ tvMessage' = <<"TreeReset">>
    /\ UNCHANGED <<tvMode, original, othersTV>>

\* handleConstructTree; the button exists in the two traversal modes only.
HandleConstructTree ==
    /\ tvMode # "manual"
    /\ LET arr1 == ParseList(traversalInput1)
           arr2 == ParseList(traversalInput2)
       IN  IF Len(arr1) = 0 \/ Len(arr2) = 0
           THEN /\ tvMessage' = <<"EnterValidArray">>
                /\ UNCHANGED <<tvRoot, tvIdCounter>>
           ELSE IF Len(arr1) # Len(arr2)
           THEN /\ tvMessage' = <<"SameLength">>
                /\ UNCHANGED <<tvRoot, tvIdCounter>>
           ELSE IF Len(arr1) # Cardinality(Range(arr1))
           THEN /\ tvMessage' = <<"Duplicate">>
                /\ UNCHANGED <<tvRoot, tvIdCounter>>
           ELSE IF FirstMissing(arr1, arr2) # NaN
           THEN /\ tvMessage' = <<"NotInOther", FirstMissing(arr1, arr2)>>
                /\ UNCHANGED <<tvRoot, tvIdCounter>>
           ELSE LET b == IF tvMode = "pre-in" THEN buildFromPreIn(arr1, arr2, 0)
                         ELSE buildFromPostIn(arr1, arr2, 0)
                IN  /\ tvIdCounter' = b.ctr
                    /\ IF ~b.ok
                       THEN /\ tvMessage' = <<"NotFoundInInorder">>
                            /\ UNCHANGED tvRoot
                       ELSE IF IsNil(b.node)
                       THEN UNCHANGED <<tvRoot, tvMessage>>
                       ELSE /\ tvRoot' = b.node
                            /\ tvMessage' = <<"Constructed">>
    /\ UNCHANGED <<tvMode, traversalInput1, traversalInput2, original, othersTV>>

\* The standard walks of a tree.
RECURSIVE Preorder(_)
Preorder(n) ==
    IF IsNil(n) THEN <<>> ELSE <<n.value>> \o Preorder(n.left) \o Preorder(n.right)

RECURSIVE Postorder(_)
Postorder(n) ==
    IF IsNil(n) THEN <<>> ELSE Postorder(n.left) \o Postorder(n.right) \o <<n.value>>

\* The user types the walks of the tree `original` into the two fields: its
\* preorder or postorder, as the mode asks, and its inorder.
TypeWalks ==
    /\ tvMode # "manual"
    /\ traversalInput1' = IF tvMode = "pre-in" THEN Preorder(original)
                          ELSE Postorder(original)
    /\ traversalInput2' = Inorder(original)
    /\ UNCHANGED <<tvRoot, tvMode, tvIdCounter, tvMessage, original, othersTV>>

\* The manual handlers of the tree visualizer (create root, insert a child,
\* delete, search) do not touch the reconstruction and are not modelled.
NextRecon ==
    \/ \E m \in {"manual", "pre-in", "post-in"} : SetMode(m)
    \/ TypeWalks
    \/ HandleConstructTree
    \/ HandleResetTV

\* Every binary tree whose values are exactly the set S, without ids.
RECURSIVE TreesOver(_)
TreesOver(S) ==
    IF S = {} THEN {Nil}
    ELSE UNION {UNION {{[value |-> r, left |-> l, right |-> rt] :
                            l \in TreesOver(L), rt \in TreesOver((S \ {r}) \ L)} :
                       L \in SUBSET (S \ {r})} : r \in S}

AllTrees == UNION {TreesOver(S) : S \in SUBSET (1..MaxTreeValues)}

\* Any binary tree with pairwise distinct values as the tree to reconstruct.
AnyTreeInit ==
    /\ tvRoot = Nil
    /\ tvMode = "manual"
    /\ traversalInput1 = <<>>
    /\ traversalInput2 = <<>>
    /\ tvIdCounter = 0
    /\ tvMessage = <<"CreateRoot">>
    /\ original \in AllTrees

\* C5: for every binary tree with pairwise distinct values, buildFromPreIn on
\* its preorder and inorder and buildFromPostIn on its postorder and inorder
\* succeed and return a tree with the same parent/left/right relations; and
\* handleConstructTree never rejects such walks as invalid, and the tree it
\* displays from them is that tree.
C5_RoundTrip ==
    /\ LET b == buildFromPreIn(Preorder(original), Inorder(original), 0)
       IN  b.ok /\ Shape(b.node) = original
    /\ LET b == buildFromPostIn(Postorder(original), Inorder(original), 0)
       IN  b.ok /\ Shape(b.node) = original
    /\ tvMessage = <<"Constructed">> => Shape(tvRoot) = original
    /\ tvMessage[1] \notin {"SameLength", "Duplicate", "NotInOther", "NotFoundInInorder"}

\* A tree of four nodes with a node that has two children and a node that has
\* only a right child, rebuilt from its postorder and inorder walks.
C5_Witness ==
    /\ tvMessage = <<"Constructed">>
    /\ tvMode = "post-in"
    /\ Len(Inorder(original)) >= 4
    /\ \E n \in Nodes(original) : ~IsNil(n.left) /\ ~IsNil(n.right)
    /\ \E n \in Nodes(original) : IsNil(n.left) /\ ~IsNil(n.right)
    /\ Shape(tvRoot) = original


(***************************************************************************)
(* Cycle detection: src/unnamed/part_003 (CycleDetectionVisualizer)        *)
(***************************************************************************)
\* Bound of the cycle detection model: lists of up to MaxListLen nodes.
MaxListLen == 5

\* A list node; the id (a React key only) is left out.
ListNode(value) ==
    [value |-> value, slowPointer |-> FALSE, fastPointer |-> FALSE,
     isCycleNode |-> FALSE, isMeetingPoint |-> FALSE]

\* setList(prev => prev.map((node, i) => ({...node, slowPointer: .., fastPointer: ..}))),
\* with 0-based indices; Null marks no node.
ShowPointers(l, s, f) ==
    [i \in 1..Len(l) |->
        [l[i] EXCEPT !.slowPointer = (i - 1 = s), !.fastPointer = (i - 1 = f)]]

ShowMeeting(l, s) ==
    [i \in 1..Len(l) |-> [l[i] EXCEPT !.isMeetingPoint = (i - 1 = s)]]

ShowCycleNode(l, k) ==
    [i \in 1..Len(l) |-> [l[i] EXCEPT !.isCycleNode = (i - 1 = k)]]

ClearPointers(l) ==
    [i \in 1..Len(l) |->
        [l[i] EXCEPT !.slowPointer = FALSE, !.fastPointer = FALSE,
                     !.isMeetingPoint = FALSE]]

\* A pointer advance that does not follow the tail's link to the cycle target.
Advance_noLink(p, n, k) == p + 1

\* One pointer advance: the tail goes to the cycle target when there is one.
Advance(p, n, k) == IF k # Null /\ p = n - 1 THEN k ELSE p + 1

\* The fast pointer's move with a single advance instead of two.
MoveFast_once(fast, n, k) ==
    LET f1 == Advance(fast, n, k)
    IN  [out |-> (k = Null /\ f1 >= n), next |-> f1]

\* The for loop of detectStep: two advances, each followed by the end check.
MoveFast(fast, n, k) ==
    LET f1 == Advance(fast, n, k)
        f2 == Advance(f1, n, k)
    IN  IF k = Null /\ f1 >= n THEN [out |-> TRUE, next |-> f1]
        ELSE [out |-> (k = Null /\ f2 >= n), next |-> f2]

\* detectStep without the check that the pointers meet.
detectStep_noMeetCheck(slow, fast, iterations, n, k) ==
    LET it       == iterations + 1
        nextSlow == IF k # Null /\ slow = n - 1 THEN k ELSE slow + 1
        mv       == MoveFast(fast, n, k)
        newFast  == IF mv.next >= n THEN mv.next % n ELSE mv.next
    IN  IF it > 3 * n
        THEN [kind |-> "limit", slow |-> slow, fast |-> fast, iterations |-> it]
        ELSE IF mv.out
        THEN [kind |-> "fastNull", slow |-> slow, fast |-> fast, iterations |-> it]
        ELSE IF k = Null /\ (newFast + 1 >= n \/ newFast + 2 >= n)
        THEN [kind |-> "willEnd", slow |-> nextSlow, fast |-> newFast, iterations |-> it]
        ELSE [kind |-> "continue", slow |-> nextSlow, fast |-> newFast, iterations |-> it]

\* One call of detectStep on the closure's slow, fast and iterations for a list
\* of n nodes with cycle target k: what it decides and the closure afterwards.
detectStep(slow, fast, iterations, n, k) ==
    LET it       == iterations + 1
        nextSlow == IF k # Null /\ slow = n - 1 THEN k ELSE slow + 1
        mv       == MoveFast(fast, n, k)
        newFast  == IF mv.next >= n THEN mv.next % n ELSE mv.next
    IN  IF it > 3 * n
        THEN [kind |-> "limit", slow |-> slow, fast |-> fast, iterations |-> it]
        ELSE IF mv.out
        THEN [kind |-> "fastNull", slow |-> slow, fast |-> fast, iterations |-> it]
        ELSE IF nextSlow = newFast /\ it > 0
        THEN [kind |-> "meet", slow |-> nextSlow, fast |-> newFast, iterations |-> it]
        ELSE IF k = Null /\ (newFast + 1 >= n \/ newFast + 2 >= n)
        THEN [kind |-> "willEnd", slow |-> nextSlow, fast |-> newFast, iterations |-> it]
        ELSE [kind |-> "continue", slow |-> nextSlow, fast |-> newFast, iterations |-> it]

\* The result a decision of detectStep sets ("null": none yet).
ResultOf(kind) ==
    CASE kind = "meet" -> "cycle"
      [] kind \in {"limit", "fastNull", "willEnd"} -> "no-cycle"
      [] OTHER -> "null"

CDInit ==
    /\ cdList = <<>>
    /\ cycleIndex = Null
    /\ cdMessage = <<"Initial">>
    /\ currentStep = <<"">>
    /\ cdIsRunning = FALSE
    /\ cdResult = "null"
    /\ cdIsStopped = FALSE
    /\ cdTimer = "none"
    /\ cdSlow = 0
    /\ cdFast = 0
    /\ cdIterations = 0
    /\ cdRunLen = 0
    /\ cdRunCycle = Null

cdRun == <<cdSlow, cdFast, cdIterations, cdRunLen, cdRunCycle>>

\* handleReset without the clearTimeout: the pending timeout stays scheduled.
HandleResetCD_keepsTimeout ==
    /\ cdIsStopped' = TRUE
    /\ cdList' = <<>>
    /\ cycleIndex' = Null
    /\ currentStep' = <<"">>
    /\ cdIsRunning' = FALSE
    /\ cdResult' = "null"
    /\ cdMessage' = <<"Initial">>
    /\ UNCHANGED <<cdTimer, cdRun, othersCD>>

\* handleReset: stops the run and clears its pending timeout.
HandleResetCD ==
    /\ cdIsStopped' = TRUE
    /\ cdTimer' = "none"
    /\ cdList' = <<>>
    /\ cycleIndex' = Null
    /\ currentStep' = <<"">>
    /\ cdIsRunning' = FALSE
    /\ cdResult' = "null"
    /\ cdMessage' = <<"Initial">>
    /\ UNCHANGED <<cdRun, othersCD>>

\* handleCreateList on an input of `input` numbers (the values 1..input): 0 is
\* the empty input, NaN an input with a token that is not a number.
HandleCreateList(input) ==
    /\ ~cdIsRunning
    /\ IF input = 0
       THEN /\ cdMessage' = <<"EnterNumbers">>
            /\ UNCHANGED <<cdList, cycleIndex, cdResult>>
       ELSE IF input = NaN
       THEN /\ cdMessage' = <<"InvalidInput">>
            /\ UNCHANGED <<cdList, cycleIndex, cdResult>>
       ELSE /\ cdList' = [i \in 1..input |-> ListNode(i)]
            /\ cycleIndex' = Null
            /\ cdResult' = "null"
            /\ cdMessage' = <<"ListCreated", input>>
    /\ UNCHANGED <<currentStep, cdIsRunning, cdIsStopped, cdTimer, cdRun, othersCD>>

\* handleSetCycle on parseInt(cycleInput) = index (NaN when not a number); the
\* button is disabled while running and on an empty list.
HandleSetCycle(index) ==
    /\ ~cdIsRunning
    /\ Len(cdList) # 0
    /\ IF index = NaN
       THEN /\ cdMessage' = <<"EnterValidIndex">>
            /\ UNCHANGED <<cdList, cycleIndex>>
       ELSE IF Len(cdList) = 0
       THEN /\ cdMessage' = <<"CreateListFirst">>
            /\ UNCHANGED <<cdList, cycleIndex>>
       ELSE IF index < 0 \/ index >= Len(cdList)
       THEN /\ cdMessage' = <<"OutOfBounds", Len(cdList) - 1>>
            /\ UNCHANGED <<cdList, cycleIndex>>
       ELSE /\ cycleIndex' = index
            /\ cdList' = ShowCycleNode(cdList, index)
            /\ cdMessage' = <<"CycleSet", index, cdList[index + 1].value>>
    /\ UNCHANGED <<currentStep, cdIsRunning, cdResult, cdIsStopped, cdTimer, cdRun,
                   othersCD>>

\* handleRemoveCycle; the button exists while a cycle target is set.
HandleRemoveCycle ==
    /\ ~cdIsRunning
    /\ cycleIndex # Null
    /\ cycleIndex' = Null
    /\ cdList' = ShowCycleNode(cdList, Null)
    /\ cdMessage' = <<"CycleRemoved">>
    /\ UNCHANGED <<currentStep, cdIsRunning, cdResult, cdIsStopped, cdTimer, cdRun,
                   othersCD>>

\* handleStartDetection; the button is disabled while running and on a list of
\* fewer than two nodes, which the handler refuses as well.
HandleStartDetection ==
    /\ ~cdIsRunning
    /\ Len(cdList) >= 2
    /\ IF Len(cdList) < 2
       THEN /\ cdMessage' = <<"NeedTwoNodes">>
            /\ UNCHANGED <<cdList, currentStep, cdIsRunning, cdResult, cdIsStopped,
                           cdTimer, cdRun>>
       ELSE /\ cdIsStopped' = FALSE
            /\ cdIsRunning' = TRUE
            /\ cdResult' = "null"
            /\ cdList' = ShowPointers(ClearPointers(cdList), 0, 0)
            /\ cdSlow' = 0
            /\ cdFast' = 0
            /\ cdIterations' = 0
            /\ cdRunLen' = Len(cdList)
            /\ cdRunCycle' = cycleIndex
            /\ currentStep' = <<"Initialize">>
            /\ cdMessage' = <<"Starting">>
            /\ cdTimer' = "detectStep"
    /\ UNCHANGED <<cycleIndex, othersCD>>

\* The pending timeout fires detectStep.
DetectStepFires ==
    /\ cdTimer = "detectStep"
    /\ IF cdIsStopped
       THEN /\ cdTimer' = "none"
            /\ UNCHANGED <<cdList, cdMessage, currentStep, cdIsRunning, cdResult, cdSlow,
                           cdFast, cdIterations>>
       ELSE LET d == detectStep(cdSlow, cdFast, cdIterations, cdRunLen, cdRunCycle)
            IN  /\ cdSlow' = d.slow
                /\ cdFast' = d.fast
                /\ cdIterations' = d.iterations
                /\ cdResult' = IF d.kind \in {"limit", "fastNull", "meet"}
                               THEN ResultOf(d.kind) ELSE cdResult
                /\ cdIsRunning' = IF d.kind \in {"limit", "fastNull", "meet"}
                                  THEN FALSE ELSE cdIsRunning
                /\ cdTimer' = CASE d.kind = "continue" -> "detectStep"
                                [] d.kind = "willEnd" -> "finish"
                                [] OTHER -> "none"
                /\ cdList' = CASE d.kind = "limit" -> cdList
                               [] d.kind = "fastNull" -> ShowPointers(cdList, d.slow, Null)
                               [] d.kind = "meet" ->
                                    ShowMeeting(ShowPointers(cdList, d.slow, d.fast), d.slow)
                               [] OTHER -> ShowPointers(cdList, d.slow, d.fast)
                /\ currentStep' = CASE d.kind = "limit" -> <<"DetectionComplete">>
                                    [] d.kind = "fastNull" -> <<"FastReachedNull">>
                                    [] d.kind = "meet" -> <<"PointersMeet", d.slow>>
                                    [] OTHER -> <<"Move", d.slow, d.fast>>
                /\ cdMessage' = CASE d.kind = "limit" -> <<"LimitReached">>
                                  [] d.kind = "fastNull" -> <<"NoCycleReachedEnd">>
                                  [] d.kind = "meet" -> <<"CycleDetected", d.slow>>
                                  [] OTHER -> <<"SlowFastAt", d.slow, d.fast>>
    /\ UNCHANGED <<cycleIndex, cdIsStopped, cdRunLen, cdRunCycle, othersCD>>

\* The timeout scheduled when the fast pointer is about to leave the list.
FinishFires ==
    /\ cdTimer = "finish"
    /\ cdTimer' = "none"
    /\ cdResult' = "no-cycle"
    /\ cdIsRunning' = FALSE
    /\ currentStep' = <<"FastWillReachNull">>
    /\ cdMessage' = <<"NoCycleWillReachEnd">>
    /\ UNCHANGED <<cdList, cycleIndex, cdIsStopped, cdRun, othersCD>>

NextCycle ==
    \/ \E input \in {NaN} \cup (0..MaxListLen) : HandleCreateList(input)
    \/ \E index \in {NaN} \cup (0..MaxListLen) : HandleSetCycle(index)
    \/ HandleRemoveCycle
    \/ HandleStartDetection
    \/ DetectStepFires
    \/ FinishFires
    \/ HandleResetCD

\* handleStartDetection run to its end on a list of n nodes with cycle target k,
\* from the closure <<slow, fast, iterations>>: the result and the iterations.
RECURSIVE RunFrom(_, _, _, _, _)
RunFrom(slow, fast, iterations, n, k) ==
    LET d == detectStep(slow, fast, iterations, n, k)
    IN  IF d.kind = "continue" THEN RunFrom(d.slow, d.fast, d.iterations, n, k)
        ELSE [result |-> ResultOf(d.kind), kind |-> d.kind, iterations |-> d.iterations]

DetectRun(n, k) ==
    IF n < 2 THEN [result |-> "null", kind |-> "refused", iterations |-> 0]
    ELSE RunFrom(0, 0, 0, n, k)

\* The messages detectStep and the last timeout end a run with.
RunEndMessages == {"LimitReached", "NoCycleReachedEnd", "CycleDetected", "NoCycleWillReachEnd"}

Expected(k) == IF k # Null THEN "cycle" ELSE "no-cycle"

\* C6 as amended: on the list at hand, when it has N >= 2 nodes, detection ends
\* with 'cycle' when a cycle target is set and with 'no-cycle' when none is,
\* within 3N iterations of detectStep; a run never does more than 3N iterations
\* and every result it sets is the one its list calls for. On a list of fewer
\* than two nodes detection does not run.
C6_DetectionResult ==
    /\ LET n == Len(cdList)
           r == DetectRun(n, cycleIndex)
       IN  IF n >= 2
           THEN r.result = Expected(cycleIndex) /\ r.iterations <= 3 * n
           ELSE r.result = "null"
    /\ cdIterations <= 3 * cdRunLen
    /\ cdResult # "null" => cdResult = Expected(cdRunCycle)
    /\ (cdIsRunning /\ ~cdIsStopped) => cdTimer # "none"
    /\ cdMessage[1] \in RunEndMessages
          => (~cdIsRunning /\ cdTimer = "none" /\ cdResult = Expected(cdRunCycle))

\* A run on four nodes with the tail pointing back to index 1 has ended with
\* the pointers meeting, after more than one iteration.
C6_Witness ==
    /\ cdResult = "cycle"
    /\ cdRunLen = 4
    /\ cdRunCycle = 1
    /\ cdIterations > 1
    /\ cdMessage = <<"CycleDetected", cdSlow>>
    /\ ~cdIsRunning

\* C6 as stated: on every list of N >= 1 nodes, detection ends with 'cycle'
\* when a cycle target is set and with 'no-cycle' within 3N iterations when
\* none is.
C6_AsStated ==
    LET n == Len(cdList)
        r == DetectRun(n, cycleIndex)
    IN  n >= 1 => (r.result = Expected(cycleIndex) /\ r.iterations <= 3 * n)

\* The indices of a list of n nodes.
InRange(p, n) == p \in 0..(n - 1)

\* C26: the slow and fast indices of a detection run are always indices of
\* the run's list, before and after every detectStep; and whenever the fast
\* pointer's advance passes the last node (which happens only without a cycle
\* target), detectStep ends the run with 'no-cycle' and keeps slow and fast
\* as they were.
C26_IndicesInRange ==
    cdRunLen > 0 =>
        /\ InRange(cdSlow, cdRunLen)
        /\ InRange(cdFast, cdRunLen)
        /\ cdRunCycle # Null => InRange(cdRunCycle, cdRunLen)
        /\ cdTimer = "detectStep" =>
              LET d  == detectStep(cdSlow, cdFast, cdIterations, cdRunLen, cdRunCycle)
                  mv == MoveFast(cdFast, cdRunLen, cdRunCycle)
              IN  /\ InRange(d.slow, cdRunLen)
                  /\ InRange(d.fast, cdRunLen)
                  /\ ~InRange(mv.next, cdRunLen) =>
                        /\ cdRunCycle = Null
                        /\ mv.next = cdRunLen
                        /\ d.kind = "fastNull"
                        /\ ResultOf(d.kind) = "no-cycle"
                        /\ d.slow = cdSlow /\ d.fast = cdFast
                  /\ d.kind \in {"continue", "willEnd", "meet"} =>
                        /\ d.slow = Advance(cdSlow, cdRunLen, cdRunCycle)
                        /\ d.fast = mv.next

\* On a list without a cycle target the fast pointer advanced from the last
\* node: the run ended with 'no-cycle' and the indices it had.
C26_Witness ==
    /\ cdMessage = <<"NoCycleReachedEnd">>
    /\ cdRunCycle = Null
    /\ cdResult = "no-cycle"
    /\ Advance(Advance(cdFast, cdRunLen, cdRunCycle), cdRunLen, cdRunCycle) = cdRunLen
    /\ InRange(cdSlow, cdRunLen) /\ InRange(cdFast, cdRunLen)

\* C27: the iteration-cap branch of detectStep is never taken: on every list
\* of two or more nodes, with any cycle target or none, no run and no pending
\* detectStep ends with 'iteration limit reached', and the run from the start
\* ends by the fast pointer leaving the list or by the pointers meeting.
C27_CapUnreachable ==
    /\ cdMessage # <<"LimitReached">>
    /\ currentStep # <<"DetectionComplete">>
    /\ cdTimer = "detectStep" =>
          detectStep(cdSlow, cdFast, cdIterations, cdRunLen, cdRunCycle).kind # "limit"
    /\ Len(cdList) >= 2 =>
          DetectRun(Len(cdList), cycleIndex).kind \in {"fastNull", "willEnd", "meet"}

\* The longest run: on five nodes with the tail pointing to the head the
\* pointers met in the fifth iteration.
C27_Witness ==
    /\ cdResult = "cycle"
    /\ cdRunLen = MaxListLen
    /\ cdRunCycle = 0
    /\ cdIterations = cdRunLen
    /\ ~cdIsRunning

(***************************************************************************)
(* Two Sum: src/src/components/SignIn.tsx (TwoSumVisualizer)               *)
(***************************************************************************)
\* Bounds of the Two Sum model: arrays of up to MaxNums tokens, each a number
\* of 0..MaxNumVal or not a number.
MaxNums == 3
MaxNumVal == 3

ArrayElement(value, index) == [value |-> value, index |-> index, status |-> "pending"]

HashMapEntry(key, value) == [key |-> key, value |-> value, isNew |-> TRUE, isMatch |-> FALSE]

\* tempHashMap.find taking the last matching entry instead of the first.
Find_last(entries, complement) ==
    IF \E e \in 1..Len(entries) : entries[e].key = complement
    THEN entries[CHOOSE e \in 1..Len(entries) :
                    /\ entries[e].key = complement
                    /\ \A f \in (e + 1)..Len(entries) : entries[f].key # complement]
    ELSE Nil

\* tempHashMap.find(entry => entry.key === complement): the first such entry,
\* Nil for undefined.
Find(entries, complement) ==
    IF \E e \in 1..Len(entries) : entries[e].key = complement
    THEN entries[CHOOSE e \in 1..Len(entries) :
                    /\ entries[e].key = complement
                    /\ \A f \in 1..(e - 1) : entries[f].key # complement]
    ELSE Nil

\* The end test of processStep stopping one index early.
ScanDone_early(currentIndex, numbers) == currentIndex >= Len(numbers) - 1

\* currentIndex >= numbers.length
ScanDone(currentIndex, numbers) == currentIndex >= Len(numbers)

\* The status processStep gives element i (0-based) when it looks at currentIndex.
Highlight(arr, currentIndex) ==
    [i \in 1..Len(arr) |->
        [arr[i] EXCEPT !.status = IF i - 1 < currentIndex THEN "processed"
                                  ELSE IF i - 1 = currentIndex THEN "current"
                                  ELSE "pending"]]

MarkFound(arr, a, b) ==
    [i \in 1..Len(arr) |->
        [arr[i] EXCEPT !.status = IF i - 1 = a \/ i - 1 = b THEN "found" ELSE "processed"]]

TSInit ==
    /\ tsInput = <<2, 7, 11, 15>>
    /\ tsTargetInput = <<9>>
    /\ tsArray = <<>>
    /\ tsHashMap = <<>>
    /\ tsMessage = <<"Initial">>
    /\ tsIsRunning = FALSE
    /\ tsResult = Nil
    /\ tsCurrentStep = <<"">>
    /\ tsIsStopped = FALSE
    /\ tsTimer = "none"
    /\ tsNumbers = <<>>
    /\ tsTarget = 0
    /\ tsCurrentIndex = 0
    /\ tempHashMap = <<>>
    /\ tsScanned = <<>>

tsFields == <<tsInput, tsTargetInput>>

tsRun == <<tsNumbers, tsTarget, tsCurrentIndex, tempHashMap>>

\* handleReset: stops the run and clears its pending timeout.
HandleResetTS ==
    /\ tsIsStopped' = TRUE
    /\ tsTimer' = "none"
    /\ tsArray' = <<>>
    /\ tsHashMap' = <<>>
    /\ tsResult' = Nil
    /\ tsCurrentStep' = <<"">>
    /\ tsIsRunning' = FALSE
    /\ tsMessage' = <<"Initial">>
    /\ UNCHANGED <<tsFields, tsRun, tsScanned, othersTS>>

\* handleVisualize on the two input fields; the button is disabled while running.
HandleVisualize ==
    /\ ~tsIsRunning
    /\ IF Len(tsInput) = 0 \/ Len(tsTargetInput) = 0
       THEN /\ tsMessage' = <<"EnterBoth">>
            /\ UNCHANGED <<tsArray, tsHashMap, tsIsRunning, tsResult, tsCurrentStep,
                           tsIsStopped, tsTimer, tsRun, tsScanned>>
       ELSE IF (\E i \in 1..Len(tsInput) : tsInput[i] = NaN) \/ tsTargetInput[1] = NaN
       THEN /\ tsMessage' = <<"InvalidInput">>
            /\ UNCHANGED <<tsArray, tsHashMap, tsIsRunning, tsResult, tsCurrentStep,
                           tsIsStopped, tsTimer, tsRun, tsScanned>>
       ELSE /\ tsIsStopped' = FALSE
            /\ tsIsRunning' = TRUE
            /\ tsResult' = Nil
            /\ tsHashMap' = <<>>
            /\ tsArray' = [i \in 1..Len(tsInput) |-> ArrayElement(tsInput[i], i - 1)]
            /\ tsMessage' = <<"Starting", tsTargetInput[1]>>
            /\ tsCurrentStep' = <<"InitializeHashMap">>
            /\ tsNumbers' = tsInput
            /\ tsTarget' = tsTargetInput[1]
            /\ tsCurrentIndex' = 0
            /\ tempHashMap' = <<>>
            /\ tsScanned' = <<>>
            /\ tsTimer' = "processStep"
    /\ UNCHANGED <<tsFields, othersTS>>

\* The body of processStep past the isStoppedRef test, looking at currentIndex.
ProcessStep(currentIndex) ==
    IF ScanDone(currentIndex, tsNumbers)
    THEN /\ tsMessage' = <<"NoPair">>
         /\ tsCurrentStep' = <<"SearchedEntireArray">>
         /\ tsIsRunning' = FALSE
         /\ tsTimer' = "none"
         /\ UNCHANGED <<tsArray, tsScanned>>
    ELSE LET currentValue == tsNumbers[currentIndex + 1]
             complement   == tsTarget - currentValue
         IN  /\ tsArray' = Highlight(tsArray, currentIndex)
             /\ tsCurrentStep' = <<"Checking", currentIndex, currentValue>>
             /\ tsMessage' = <<"Current", currentValue, complement>>
             /\ tsTimer' = "check"
             /\ tsScanned' = Append(tsScanned, currentIndex)
             /\ UNCHANGED tsIsRunning

\* The first timeout of a run fires processStep.
ProcessStepFires ==
    /\ tsTimer = "processStep"
    /\ IF tsIsStopped
       THEN /\ tsTimer' = "none"
            /\ UNCHANGED <<tsArray, tsMessage, tsCurrentStep, tsIsRunning, tsScanned>>
       ELSE ProcessStep(tsCurrentIndex)
    /\ UNCHANGED <<tsFields, tsHashMap, tsResult, tsIsStopped, tsRun, othersTS>>

\* The timeout of processStep: look the complement up, report the pair or store
\* the current value.
CheckFires ==
    /\ tsTimer = "check"
    /\ IF tsIsStopped
       THEN /\ tsTimer' = "none"
            /\ UNCHANGED <<tsArray, tsHashMap, tsMessage, tsCurrentStep, tsIsRunning, tsResult,
                           tempHashMap>>
       ELSE LET currentValue == tsNumbers[tsCurrentIndex + 1]
                complement   == tsTarget - currentValue
                foundEntry   == Find(tempHashMap, complement)
                pushed       == Append(tempHashMap, HashMapEntry(currentValue, tsCurrentIndex))
            IN  IF foundEntry # Nil
                THEN /\ tsArray' = MarkFound(tsArray, foundEntry.value, tsCurrentIndex)
                     /\ tsHashMap' = [e \in 1..Len(tsHashMap) |->
                                        [tsHashMap[e] EXCEPT
                                            !.isMatch = (tsHashMap[e].key = complement),
                                            !.isNew = FALSE]]
                     /\ tsResult' = [indices |-> <<foundEntry.value, tsCurrentIndex>>,
                                     values |-> <<tsNumbers[foundEntry.value + 1],
                                                  currentValue>>]
                     /\ tsCurrentStep' = <<"Found", complement, foundEntry.value>>
                     /\ tsMessage' = <<"FoundPair", foundEntry.value, tsCurrentIndex,
                                       tsNumbers[foundEntry.value + 1], currentValue, tsTarget>>
                     /\ tsIsRunning' = FALSE
                     /\ tsTimer' = "none"
                     /\ UNCHANGED tempHashMap
                ELSE /\ tsCurrentStep' = <<"Adding", complement, currentValue, tsCurrentIndex>>
                     /\ tsMessage' = <<"Store", complement, currentValue, tsCurrentIndex>>
                     /\ tempHashMap' = pushed
                     /\ tsHashMap' = [e \in 1..Len(pushed) |->
                                        [pushed[e] EXCEPT !.isNew = (pushed[e].key = currentValue)]]
                     /\ tsTimer' = "advance"
                     /\ UNCHANGED <<tsArray, tsResult, tsIsRunning>>
    /\ UNCHANGED <<tsFields, tsIsStopped, tsNumbers, tsTarget, tsCurrentIndex, tsScanned,
                   othersTS>>

\* The inner timeout: drop the 'new' highlight, currentIndex++, processStep().
AdvanceFires ==
    /\ tsTimer = "advance"
    /\ IF tsIsStopped
       THEN /\ tsTimer' = "none"
            /\ UNCHANGED <<tsArray, tsHashMap, tsMessage, tsCurrentStep, tsIsRunning,
                           tsCurrentIndex, tsScanned>>
       ELSE /\ tsHashMap' = [e \in 1..Len(tsHashMap) |-> [tsHashMap[e] EXCEPT !.isNew = FALSE]]
            /\ tsCurrentIndex' = tsCurrentIndex + 1
            /\ ProcessStep(tsCurrentIndex + 1)
    /\ UNCHANGED <<tsFields, tsResult, tsIsStopped, tsNumbers, tsTarget, tempHashMap, othersTS>>

NextTwoSum ==
    \/ HandleVisualize
    \/ ProcessStepFires
    \/ CheckFires
    \/ AdvanceFires
    \/ HandleResetTS

\* Any array and any target typed into the two fields.
AnyTwoSumInit ==
    /\ tsInput \in SeqsUpTo({NaN} \cup (0..MaxNumVal), MaxNums)
    /\ tsTargetInput \in {<<>>} \cup {<<t>> : t \in {NaN} \cup (0..(2 * MaxNumVal))}
    /\ tsArray = <<>>
    /\ tsHashMap = <<>>
    /\ tsMessage = <<"Initial">>
    /\ tsIsRunning = FALSE
    /\ tsResult = Nil
    /\ tsCurrentStep = <<"">>
    /\ tsIsStopped = FALSE
    /\ tsTimer = "none"
    /\ tsNumbers = <<>>
    /\ tsTarget = 0
    /\ tsCurrentIndex = 0
    /\ tempHashMap = <<>>
    /\ tsScanned = <<>>

\* Whether 0-based i < j is a pair of nums summing to t.
IsPair(nums, t, i, j) ==
    /\ i < j
    /\ j < Len(nums)
    /\ nums[i + 1] + nums[j + 1] = t

PairExists(nums, t) ==
    \E j \in 0..(Len(nums) - 1) : \E i \in 0..(j - 1) : IsPair(nums, t, i, j)

\* C7: a Two-Sum run reports a pair exactly when one exists: the 'no pair' end
\* is reached only when there is none, and a reported [i, j] has i < j and
\* nums[i] + nums[j] = target, j the smallest index with a complement at an
\* earlier index, i the first index holding that complement, and the scan
\* stopped at j.
C7_TwoSumPair ==
    /\ tsMessage = <<"NoPair">> => ~PairExists(tsNumbers, tsTarget)
    /\ tsResult # Nil =>
          LET i == tsResult.indices[1]
              j == tsResult.indices[2]
          IN  /\ IsPair(tsNumbers, tsTarget, i, j)
              /\ \A j2 \in 0..(j - 1) : \A i2 \in 0..(j2 - 1) :
                    ~IsPair(tsNumbers, tsTarget, i2, j2)
              /\ \A i2 \in 0..(i - 1) : tsNumbers[i2 + 1] # tsTarget - tsNumbers[j + 1]
              /\ tsResult.values = <<tsNumbers[i + 1], tsNumbers[j + 1]>>
              /\ tsCurrentIndex = j
              /\ tsScanned = [x \in 1..(j + 1) |-> x - 1]
              /\ tsTimer = "none"
              /\ ~tsIsRunning
              /\ tsMessage[1] = "FoundPair"
    /\ tsMessage[1] = "FoundPair" => tsResult # Nil
    /\ (tsNumbers = <<3, 3>> /\ tsTarget = 6 /\ tsMessage[1] = "FoundPair")
          => tsResult.indices = <<0, 1>>

\* The pair is found at the last index, with the complement held by two
\* earlier indices.
C7_Witness ==
    /\ tsMessage[1] = "FoundPair"
    /\ tsResult # Nil
    /\ tsResult.indices = <<0, 2>>
    /\ tsNumbers[1] = tsNumbers[2]

\* C8: when no two distinct indices sum to the target, the run looks at every
\* index once, in order, and ends with the 'no pair' message, result null and
\* not running; while it runs no index is looked at twice.
C8_NoPairFullScan ==
    /\ tsMessage = <<"NoPair">> =>
          /\ tsScanned = [x \in 1..Len(tsNumbers) |-> x - 1]
          /\ tsResult = Nil
          /\ ~tsIsRunning
          /\ tsTimer = "none"
    /\ ~PairExists(tsNumbers, tsTarget) =>
          /\ tsResult = Nil
          /\ tsMessage[1] # "FoundPair"
          /\ NoDup(tsScanned)
          /\ (tsIsRunning => tsTimer # "none")

\* An array of the full length without a pair has been scanned to its end.
C8_Witness ==
    /\ tsMessage = <<"NoPair">>
    /\ Len(tsNumbers) = MaxNums
    /\ ~PairExists(tsNumbers, tsTarget)
    /\ Len(tsScanned) = MaxNums

\* C30: the hash map of a Two-Sum run, the closure's and the one on show,
\* holds no key twice, and the index stored with a key is the first index at
\* which the run's numbers hold that value.
C30_OneEntryPerValue ==
    \A hm \in {tempHashMap, tsHashMap} :
        /\ \A e, f \in 1..Len(hm) : e # f => hm[e].key # hm[f].key
        /\ \A e \in 1..Len(hm) : hm[e].value = indexOf(tsNumbers, hm[e].key)

(***************************************************************************)
(* Binary numbers: src/unnamed/part_000 (BinaryNumbersVisualizer)          *)
(***************************************************************************)
\* The largest N handleVisualize accepts.
MaxN == 20

\* A queue item as handleVisualize and the dequeue timeout create it; the id (a
\* React key only) is left out.
QueueItem(value) == [value |-> value, isAnimating |-> TRUE, isDequeuing |-> FALSE]

\* resultQueue.push with the two successors in the opposite order.
Enqueue_swapped(q, frontValue) ==
    q \o <<QueueItem(frontValue \o "1"), QueueItem(frontValue \o "0")>>

\* resultQueue.push(next0, next1)
Enqueue(q, frontValue) ==
    q \o <<QueueItem(frontValue \o "0"), QueueItem(frontValue \o "1")>>

\* prev.map(item => ({...item, isAnimating: false}))
StopAnimating(q) == [i \in 1..Len(q) |-> [q[i] EXCEPT !.isAnimating = FALSE]]

\* resultQueue.map((item, i) => ({...item, isDequeuing: i === 0, isAnimating: false}))
ShowDequeuing(q) ==
    [i \in 1..Len(q) |-> [q[i] EXCEPT !.isDequeuing = (i = 1), !.isAnimating = FALSE]]

BNInit ==
    /\ nValue = 5
    /\ bnQueue = <<>>
    /\ output = <<>>
    /\ bnMessage = <<"Initial">>
    /\ bnCurrentStep = <<"">>
    /\ bnIsRunning = FALSE
    /\ isComplete = FALSE
    /\ bnIsStopped = FALSE
    /\ bnTimer = "none"
    /\ bnN = 0
    /\ count = 0
    /\ resultQueue = <<>>

bnRun == <<bnN, count, resultQueue>>

\* handleReset: stops the run and clears its pending timeout.
HandleResetBN ==
    /\ bnIsStopped' = TRUE
    /\ bnTimer' = "none"
    /\ bnQueue' = <<>>
    /\ output' = <<>>
    /\ bnCurrentStep' = <<"">>
    /\ bnIsRunning' = FALSE
    /\ isComplete' = FALSE
    /\ bnMessage' = <<"Initial">>
    /\ UNCHANGED <<nValue, bnRun, othersBN>>

\* handleVisualize on parseInt(nValue); the button is disabled while running.
HandleVisualizeBN ==
    /\ ~bnIsRunning
    /\ IF nValue = NaN \/ nValue < 1 \/ nValue > MaxN
       THEN /\ bnMessage' = <<"EnterValidNumber">>
            /\ UNCHANGED <<bnQueue, output, bnCurrentStep, bnIsRunning, isComplete,
                           bnIsStopped, bnTimer, bnRun>>
       ELSE /\ bnIsStopped' = FALSE
            /\ bnIsRunning' = TRUE
            /\ isComplete' = FALSE
            /\ output' = <<>>
            /\ bnQueue' = <<QueueItem("1")>>
            /\ bnMessage' = <<"Starting", nValue>>
            /\ bnCurrentStep' = <<"InitializeQueue">>
            /\ bnN' = nValue
            /\ count' = 0
            /\ resultQueue' = <<QueueItem("1")>>
            /\ bnTimer' = "start"
    /\ UNCHANGED <<nValue, othersBN>>

\* processStep: complete, or highlight the front and schedule its dequeue;
\* shown is the queue on display when it is called.
ProcessStepBN(shown) ==
    IF bnIsStopped
    THEN /\ bnTimer' = "none"
         /\ bnQueue' = shown
         /\ UNCHANGED <<bnMessage, bnCurrentStep, bnIsRunning, isComplete>>
    ELSE IF count >= bnN
    THEN /\ isComplete' = TRUE
         /\ bnIsRunning' = FALSE
         /\ bnCurrentStep' = <<"Complete">>
         /\ bnMessage' = <<"GeneratedAll", bnN>>
         /\ bnTimer' = "none"
         /\ bnQueue' = shown
    ELSE /\ bnQueue' = ShowDequeuing(resultQueue)
         /\ bnCurrentStep' = <<"Dequeue", resultQueue[1].value>>
         /\ bnMessage' = <<"Dequeuing", resultQueue[1].value>>
         /\ bnTimer' = "dequeue"
         /\ UNCHANGED <<bnIsRunning, isComplete>>

\* The first timeout of a run: drop the highlight, then processStep().
StartFires ==
    /\ bnTimer = "start"
    /\ ProcessStepBN(StopAnimating(bnQueue))
    /\ UNCHANGED <<nValue, output, bnIsStopped, bnRun, othersBN>>

\* The timeout of processStep: move the front to the output, then complete or
\* enqueue its two successors.
DequeueFires ==
    /\ bnTimer = "dequeue"
    /\ IF bnIsStopped
       THEN /\ bnTimer' = "none"
            /\ UNCHANGED <<bnQueue, output, bnMessage, bnCurrentStep, bnIsRunning, isComplete,
                           count, resultQueue>>
       ELSE LET front   == resultQueue[1]
                shifted == Tail(resultQueue)
            IN  /\ output' = Append(output, front.value)
                /\ count' = count + 1
                /\ IF count + 1 >= bnN
                   THEN /\ resultQueue' = shifted
                        /\ bnQueue' = shifted
                        /\ isComplete' = TRUE
                        /\ bnIsRunning' = FALSE
                        /\ bnCurrentStep' = <<"Complete">>
                        /\ bnMessage' = <<"GeneratedAll", bnN>>
                        /\ bnTimer' = "none"
                   ELSE /\ resultQueue' = Enqueue(shifted, front.value)
                        /\ bnQueue' = Enqueue(shifted, front.value)
                        /\ bnCurrentStep' = <<"Enqueue", front.value \o "0", front.value \o "1">>
                        /\ bnMessage' = <<"Enqueuing", front.value \o "0", front.value \o "1">>
                        /\ bnTimer' = "unhighlight"
                        /\ UNCHANGED <<bnIsRunning, isComplete>>
    /\ UNCHANGED <<nValue, bnIsStopped, bnN, othersBN>>

\* The timeout after the enqueue: drop the highlight, schedule processStep.
UnhighlightFires ==
    /\ bnTimer = "unhighlight"
    /\ IF bnIsStopped
       THEN /\ bnTimer' = "none"
            /\ UNCHANGED bnQueue
       ELSE /\ bnQueue' = StopAnimating(bnQueue)
            /\ bnTimer' = "processStep"
    /\ UNCHANGED <<nValue, output, bnMessage, bnCurrentStep, bnIsRunning, isComplete,
                   bnIsStopped, bnRun, othersBN>>

\* The last timeout of an iteration calls processStep.
NextStepFires ==
    /\ bnTimer = "processStep"
    /\ ProcessStepBN(bnQueue)
    /\ UNCHANGED <<nValue, output, bnIsStopped, bnRun, othersBN>>

NextBinary ==
    \/ HandleVisualizeBN
    \/ StartFires
    \/ DequeueFires
    \/ UnhighlightFires
    \/ NextStepFires
    \/ HandleResetBN

\* Any N typed into the field: not a number, or a number of 0..MaxN+1.
AnyBinaryInit ==
    /\ nValue \in {NaN} \cup (0..(MaxN + 1))
    /\ bnQueue = <<>>
    /\ output = <<>>
    /\ bnMessage = <<"Initial">>
    /\ bnCurrentStep = <<"">>
    /\ bnIsRunning = FALSE
    /\ isComplete = FALSE
    /\ bnIsStopped = FALSE
    /\ bnTimer = "none"
    /\ bnN = 0
    /\ count = 0
    /\ resultQueue = <<>>

\* The binary representation of k >= 1, most significant digit first.
RECURSIVE ToBinary(_)
ToBinary(k) ==
    LET digit == IF k % 2 = 0 THEN "0" ELSE "1"
    IN  IF k < 2 THEN digit ELSE ToBinary(k \div 2) \o digit

\* C9: the output list is at every moment the binary representations of
\* 1, 2, ..., in that order, never more than N of them, and when the run
\* completes there are exactly N; N = 5 completes with 1, 10, 11, 100, 101.
C9_BinaryOutput ==
    /\ output = [i \in 1..Len(output) |-> ToBinary(i)]
    /\ Len(output) <= bnN
    /\ isComplete => (Len(output) = bnN /\ bnN \in 1..MaxN /\ ~bnIsRunning)
    /\ (isComplete /\ bnN = 5) => output = <<"1", "10", "11", "100", "101">>
    /\ bnIsRunning => (bnTimer # "none" /\ Len(output) = count /\ count < bnN)

\* The run for the largest N has completed, past the first five-digit number.
C9_Witness ==
    /\ isComplete
    /\ bnN = MaxN
    /\ Len(output) = MaxN
    /\ output[16] = "10000"

\* C31: a run for N performs exactly N iterations, and every iteration, the
\* last one included, dequeues the front f, appends f to the output and then
\* enqueues f+"0" followed by f+"1".
C31_EveryIterationEnqueues ==
    [][/\ isComplete' => count' = bnN'
       /\ Len(output') = Len(output) + 1 =>
             LET f == resultQueue[1].value
             IN  /\ output' = Append(output, f)
                 /\ count' = count + 1
                 /\ resultQueue' = Enqueue(Tail(resultQueue), f)
                 /\ bnQueue' = resultQueue']_vars

(***************************************************************************)
(* Tree traversal player: src/src/components/Algorithms.tsx                *)
(* (TreeTraversalVisualizer)                                               *)
(***************************************************************************)
\* The predefined tree of the component.
defaultTreeData ==
    TreeNode(1, 10,
             TreeNode(2, 5, TreeNode(3, 3, Nil, Nil), TreeNode(4, 7, Nil, Nil)),
             TreeNode(5, 15, Nil, TreeNode(6, 18, Nil, Nil)))

\* A step of the trace; visited is Null where the code leaves it undefined.
TStep(nodeId, msg, vis) == [nodeId |-> nodeId, msg |-> msg, visited |-> vis]

\* traverse(node) visiting the node after its left subtree in every order.
RECURSIVE traverse_alwaysInorder(_, _)
traverse_alwaysInorder(node, type) ==
    IF IsNil(node) THEN <<>>
    ELSE traverse_alwaysInorder(node.left, type)
         \o <<TStep(node.id, <<"Visit", node.value>>, node.value)>>
         \o traverse_alwaysInorder(node.right, type)

\* traverse(node) of generateSteps(type): the steps it pushes.
RECURSIVE traverse(_, _)
traverse(node, type) ==
    IF IsNil(node) THEN <<>>
    ELSE LET visit == <<TStep(node.id, <<"Visit", node.value>>, node.value)>>
             goL   == IF IsNil(node.left) THEN <<>>
                      ELSE <<TStep(node.id, <<"GoLeft", node.value>>, Null)>>
                           \o traverse(node.left, type)
             goR   == IF IsNil(node.right) THEN <<>>
                      ELSE <<TStep(node.id, <<"GoRight", node.value>>, Null)>>
                           \o traverse(node.right, type)
         IN  IF type = "preorder"
             THEN visit \o traverse(node.left, type) \o traverse(node.right, type)
             ELSE IF type = "inorder" THEN goL \o visit \o goR
             ELSE goL \o goR \o visit

\* generateSteps leaving out the final push.
generateSteps_noComplete(tree, type) == traverse(tree, type)

generateSteps(tree, type) ==
    Append(traverse(tree, type), TStep(Null, <<"TraversalComplete">>, Null))

TTInit ==
    /\ treeData = defaultTreeData
    /\ activeNodeId = Null
    /\ visitedNodes = <<>>
    /\ ttIsPlaying = FALSE
    /\ ttMessage = <<"Select">>
    /\ currentStepIndex = 0
    /\ ttStepsRef = <<>>
    /\ ttTimer = FALSE

\* The effect on [currentStepIndex] (lines 744-756), run after a render in
\* which the index changed: what it makes of the active node, the message and
\* the visited list the handler set.
StepEffect(changed, idx, steps, act, msg, vis) ==
    IF changed /\ Len(steps) > 0 /\ idx < Len(steps)
    THEN LET step == steps[idx + 1]
         IN  [active |-> step.nodeId, msg |-> step.msg,
              visited |-> IF step.visited # Null /\ step.visited \notin Range(vis)
                          THEN Append(vis, step.visited) ELSE vis]
    ELSE [active |-> act, msg |-> msg, visited |-> vis]

\* startTraversal(type).  It clears the interval itself; the effect on
\* [isPlaying] starts a new one only when isPlaying changes, that is when it
\* was false before.
StartTraversal(type) ==
    LET steps == generateSteps(treeData, type)
        e     == StepEffect(currentStepIndex # 0, 0, steps, Null, <<"Starting", type>>, <<>>)
    IN  /\ ttStepsRef' = steps
        /\ currentStepIndex' = 0
        /\ activeNodeId' = e.active
        /\ ttMessage' = e.msg
        /\ visitedNodes' = e.visited
        /\ ttIsPlaying' = TRUE
        /\ ttTimer' = ~ttIsPlaying
        /\ UNCHANGED <<treeData, othersTT>>

\* A tick of the interval: the updater of setCurrentStepIndex.
TickTT ==
    /\ ttTimer
    /\ IF currentStepIndex >= Len(ttStepsRef) - 1
       THEN /\ ttIsPlaying' = FALSE
            /\ ttTimer' = FALSE
            /\ UNCHANGED <<currentStepIndex, activeNodeId, ttMessage, visitedNodes>>
       ELSE LET e == StepEffect(TRUE, currentStepIndex + 1, ttStepsRef, activeNodeId,
                                ttMessage, visitedNodes)
            IN  /\ currentStepIndex' = currentStepIndex + 1
                /\ activeNodeId' = e.active
                /\ ttMessage' = e.msg
                /\ visitedNodes' = e.visited
                /\ UNCHANGED <<ttIsPlaying, ttTimer>>
    /\ UNCHANGED <<treeData, ttStepsRef, othersTT>>

\* The Play / Pause button: setIsPlaying(!isPlaying).
TogglePlayTT ==
    /\ ttIsPlaying' = ~ttIsPlaying
    /\ ttTimer' = ~ttIsPlaying
    /\ UNCHANGED <<treeData, activeNodeId, visitedNodes, ttMessage, currentStepIndex,
                   ttStepsRef, othersTT>>

\* handleStepForward
HandleStepForward ==
    /\ IF currentStepIndex < Len(ttStepsRef) - 1
       THEN LET e == StepEffect(TRUE, currentStepIndex + 1, ttStepsRef, activeNodeId,
                                ttMessage, visitedNodes)
            IN  /\ currentStepIndex' = currentStepIndex + 1
                /\ activeNodeId' = e.active
                /\ ttMessage' = e.msg
                /\ visitedNodes' = e.visited
       ELSE UNCHANGED <<currentStepIndex, activeNodeId, ttMessage, visitedNodes>>
    /\ UNCHANGED <<treeData, ttIsPlaying, ttTimer, ttStepsRef, othersTT>>

\* handleReset of the traversal player; stepsRef is empty when the effect runs.
HandleResetTT ==
    /\ ttIsPlaying' = FALSE
    /\ ttTimer' = FALSE
    /\ activeNodeId' = Null
    /\ visitedNodes' = <<>>
    /\ ttMessage' = <<"ResetComplete">>
    /\ currentStepIndex' = 0
    /\ ttStepsRef' = <<>>
    /\ UNCHANGED <<treeData, othersTT>>

TraversalTypes == {"inorder", "preorder", "postorder"}

NextTreePlayer ==
    \/ \E type \in TraversalTypes : StartTraversal(type)
    \/ TickTT
    \/ TogglePlayTT
    \/ HandleStepForward
    \/ HandleResetTT

\* t with every node's value as its id.
RECURSIVE WithIds(_)
WithIds(t) ==
    IF IsNil(t) THEN Nil ELSE TreeNode(t.value, t.value, WithIds(t.left), WithIds(t.right))

\* Bound of the traversal inputs: trees over the values 1..MaxTraversalValues.
MaxTraversalValues == 3

\* Any tree with pairwise distinct values in the place of the predefined one:
\* the input of generateSteps.
AnyTreeDataInit ==
    /\ treeData \in {WithIds(t) : t \in UNION {TreesOver(S) :
                         S \in (SUBSET (1..MaxTraversalValues)) \ {{}}}}
    /\ activeNodeId = Null
    /\ visitedNodes = <<>>
    /\ ttIsPlaying = FALSE
    /\ ttMessage = <<"Select">>
    /\ currentStepIndex = 0
    /\ ttStepsRef = <<>>
    /\ ttTimer = FALSE

(***************************************************************************)
(* Parentheses matcher: src/unnamed/part_002 (ParenthesesMatcher)          *)
(***************************************************************************)
\* Bound of the matcher model: the length of the expression typed.
MaxExprLen == 4

OPENING_BRACKETS == {"(", "{", "["}

CLOSING_BRACKETS == {")", "}", "]"}

\* BRACKET_PAIRS with '(' for every closing bracket.
BRACKET_PAIRS_allRound == [c \in CLOSING_BRACKETS |-> "("]

BRACKET_PAIRS == [c \in CLOSING_BRACKETS |->
                    IF c = ")" THEN "(" ELSE IF c = "}" THEN "{" ELSE "["]

\* The characters typed: the six brackets and a letter.
CharPool == OPENING_BRACKETS \cup CLOSING_BRACKETS \cup {"a"}

getBracketType(char) ==
    IF char \in OPENING_BRACKETS THEN "opening"
    ELSE IF char \in CLOSING_BRACKETS THEN "closing"
    ELSE "other"

CharInfo(char, index, type, status) ==
    [char |-> char, index |-> index, type |-> type, status |-> status]

StackItem(char, index) == [char |-> char, index |-> index]

\* !inputValue.trim()
IsBlank(input) == \A i \in 1..Len(input) : input[i] = " "

\* inputValue.split('').some(c => OPENING_BRACKETS.includes(c) || ...)
HasBrackets(input) ==
    \E i \in 1..Len(input) : input[i] \in OPENING_BRACKETS \cup CLOSING_BRACKETS

\* The setCharacters of processStep at idx (0-based).
MarkProcessing(chars, idx) ==
    [i \in 1..Len(chars) |->
        [chars[i] EXCEPT !.status = IF i - 1 < idx THEN "processed"
                                    ELSE IF i - 1 = idx THEN "processing"
                                    ELSE "pending"]]

\* The setCharacters of the two error branches at idx (0-based).
MarkError(chars, idx) ==
    [i \in 1..Len(chars) |->
        IF i - 1 = idx THEN [chars[i] EXCEPT !.status = "error"] ELSE chars[i]]

PMInit ==
    /\ pmInput = <<>>
    /\ characters = <<>>
    /\ pmStack = <<>>
    /\ pmMessage = <<"Enter">>
    /\ pmIsRunning = FALSE
    /\ pmResult = "null"
    /\ pmIsStopped = FALSE
    /\ pmTimer = "none"
    /\ pmChars = <<>>
    /\ pmIdx = 0
    /\ currentStack = <<>>

\* handleReset of the matcher.
HandleResetPM ==
    /\ pmIsStopped' = TRUE
    /\ pmTimer' = "none"
    /\ characters' = <<>>
    /\ pmStack' = <<>>
    /\ pmMessage' = <<"Enter">>
    /\ pmIsRunning' = FALSE
    /\ pmResult' = "null"
    /\ pmInput' = <<>>
    /\ pmChars' = <<>>
    /\ pmIdx' = 0
    /\ currentStack' = <<>>
    /\ UNCHANGED othersPM

\* handleVisualize; the button and the Enter key are disabled while isRunning.
HandleVisualizePM ==
    /\ ~pmIsRunning
    /\ IF IsBlank(pmInput)
       THEN /\ pmMessage' = <<"PleaseEnter">>
            /\ UNCHANGED <<characters, pmStack, pmIsRunning, pmResult, pmIsStopped, pmTimer,
                           pmChars, pmIdx, currentStack>>
       ELSE IF ~HasBrackets(pmInput)
       THEN /\ characters' = [i \in 1..Len(pmInput) |->
                                CharInfo(pmInput[i], i - 1, "other", "processed")]
            /\ pmResult' = "balanced"
            /\ pmMessage' = <<"NoBrackets">>
            /\ UNCHANGED <<pmStack, pmIsRunning, pmIsStopped, pmTimer, pmChars, pmIdx,
                           currentStack>>
       ELSE LET chars == [i \in 1..Len(pmInput) |->
                            CharInfo(pmInput[i], i - 1, getBracketType(pmInput[i]),
                                     "pending")]
            IN  /\ pmIsStopped' = FALSE
                /\ characters' = chars
                /\ pmStack' = <<>>
                /\ pmResult' = "null"
                /\ pmIsRunning' = TRUE
                /\ pmMessage' = <<"Starting">>
                /\ pmTimer' = "processStep"
                /\ pmChars' = chars
                /\ pmIdx' = 0
                /\ currentStack' = <<>>
    /\ UNCHANGED <<pmInput, othersPM>>

\* processStep(chars, idx, currentStack), called by a timeout.
ProcessStepPM(chars, idx, stk) ==
    IF pmIsStopped
    THEN /\ pmTimer' = "none"
         /\ UNCHANGED <<characters, pmStack, pmMessage, pmIsRunning, pmResult, pmChars, pmIdx,
                        currentStack>>
    ELSE IF idx >= Len(chars)
    THEN /\ IF Len(stk) = 0
            THEN /\ pmResult' = "balanced"
                 /\ pmMessage' = <<"Balanced">>
            ELSE /\ pmResult' = "unbalanced"
                 /\ pmMessage' = <<"StackNotEmpty", Len(stk)>>
         /\ pmIsRunning' = FALSE
         /\ pmTimer' = "none"
         /\ UNCHANGED <<characters, pmStack, pmChars, pmIdx, currentStack>>
    ELSE LET currentChar == chars[idx + 1]
         IN  IF currentChar.type = "other"
             THEN /\ characters' = MarkProcessing(characters, idx)
                  /\ pmMessage' = <<"Skipping", currentChar.char>>
                  /\ pmTimer' = "processStep"
                  /\ pmIdx' = idx + 1
                  /\ UNCHANGED <<pmStack, pmIsRunning, pmResult, pmChars, currentStack>>
             ELSE IF currentChar.type = "opening"
             THEN /\ characters' = MarkProcessing(characters, idx)
                  /\ pmMessage' = <<"Push", currentChar.char>>
                  /\ pmTimer' = "push"
                  /\ pmIdx' = idx
                  /\ UNCHANGED <<pmStack, pmIsRunning, pmResult, pmChars, currentStack>>
             ELSE IF Len(stk) = 0
             THEN /\ characters' = MarkError(MarkProcessing(characters, idx), idx)
                  /\ pmMessage' = <<"EmptyStack", currentChar.char>>
                  /\ pmResult' = "unbalanced"
                  /\ pmIsRunning' = FALSE
                  /\ pmTimer' = "none"
                  /\ UNCHANGED <<pmStack, pmChars, pmIdx, currentStack>>
             ELSE IF Last(stk).char = BRACKET_PAIRS[currentChar.char]
             THEN /\ characters' = MarkProcessing(characters, idx)
                  /\ pmMessage' = <<"Pop", currentChar.char>>
                  /\ pmTimer' = "pop"
                  /\ pmIdx' = idx
                  /\ UNCHANGED <<pmStack, pmIsRunning, pmResult, pmChars, currentStack>>
             ELSE /\ characters' = MarkError(MarkProcessing(characters, idx), idx)
                  /\ pmMessage' = <<"Mismatch", currentChar.char>>
                  /\ pmResult' = "unbalanced"
                  /\ pmIsRunning' = FALSE
                  /\ pmTimer' = "none"
                  /\ UNCHANGED <<pmStack, pmChars, pmIdx, currentStack>>

\* The timeout that calls processStep / recursiveStep fires.
ProcessStepFiresPM ==
    /\ pmTimer = "processStep"
    /\ ProcessStepPM(pmChars, pmIdx, currentStack)
    /\ UNCHANGED <<pmInput, pmIsStopped, othersPM>>

\* The timeout of the opening branch fires: the push.
PushFires ==
    /\ pmTimer = "push"
    /\ IF pmIsStopped
       THEN /\ pmTimer' = "none"
            /\ UNCHANGED <<pmStack, pmIdx, currentStack>>
       ELSE LET newStack == Append(currentStack,
                                   StackItem(pmChars[pmIdx + 1].char, pmIdx))
            IN  /\ pmStack' = newStack
                /\ currentStack' = newStack
                /\ pmIdx' = pmIdx + 1
                /\ pmTimer' = "processStep"
    /\ UNCHANGED <<pmInput, characters, pmMessage, pmIsRunning, pmResult, pmIsStopped,
                   pmChars, othersPM>>

\* The timeout of the matching closing branch fires: the pop.
PopFires ==
    /\ pmTimer = "pop"
    /\ IF pmIsStopped
       THEN /\ pmTimer' = "none"
            /\ UNCHANGED <<pmStack, pmIdx, currentStack>>
       ELSE LET newStack == SubSeq(currentStack, 1, Len(currentStack) - 1)
            IN  /\ pmStack' = newStack
                /\ currentStack' = newStack
                /\ pmIdx' = pmIdx + 1
                /\ pmTimer' = "processStep"
    /\ UNCHANGED <<pmInput, characters, pmMessage, pmIsRunning, pmResult, pmIsStopped,
                   pmChars, othersPM>>

NextMatcher ==
    \/ HandleVisualizePM
    \/ ProcessStepFiresPM
    \/ PushFires
    \/ PopFires
    \/ HandleResetPM

\* Any expression typed into the input box, or blanks alone.
AnyExprInit ==
    /\ pmInput \in SeqsUpTo(CharPool, MaxExprLen) \cup {<<" ">>, <<" ", " ">>}
    /\ characters = <<>>
    /\ pmStack = <<>>
    /\ pmMessage = <<"Enter">>
    /\ pmIsRunning = FALSE
    /\ pmResult = "null"
    /\ pmIsStopped = FALSE
    /\ pmTimer = "none"
    /\ pmChars = <<>>
    /\ pmIdx = 0
    /\ currentStack = <<>>

\* The expression of the run on show: the characters handleVisualize split.
RunInput == [i \in 1..Len(characters) |-> characters[i].char]

\* The brackets of an expression, in order.
Brackets(s) == SelectSeq(s, LAMBDA c : c \in OPENING_BRACKETS \cup CLOSING_BRACKETS)

\* o opens what c closes.
Matches(o, c) ==
    \/ o = "(" /\ c = ")"
    \/ o = "{" /\ c = "}"
    \/ o = "[" /\ c = "]"

\* Properly nested and matched: empty, or an opening bracket, a nested part,
\* its closing bracket and a nested rest.
RECURSIVE Nested(_)
Nested(b) ==
    \/ b = <<>>
    \/ \E k \in 2..Len(b) :
          /\ Matches(b[1], b[k])
          /\ Nested(SubSeq(b, 2, k - 1))
          /\ Nested(SubSeq(b, k + 1, Len(b)))

\* b can be continued to a properly nested sequence by at most n closing
\* brackets.
RECURSIVE Completable(_, _)
Completable(b, n) ==
    \/ Nested(b)
    \/ /\ n > 0
       /\ \E c \in CLOSING_BRACKETS : Completable(Append(b, c), n - 1)

\* The 0-based index of the first character at which the expression read so
\* far can no longer be continued to a properly nested one; -1 when there is
\* none.
FirstBadIndex(s) ==
    LET bad == {i \in 1..Len(s) :
                   ~Completable(Brackets(SubSeq(s, 1, i)), i)}
    IN  IF bad = {} THEN -1 ELSE (CHOOSE i \in bad : \A j \in bad : i <= j) - 1

\* The 0-based index of the character shown with status 'error'; -1 when
\* there is none.
ErrorIndex ==
    LET err == {i \in 1..Len(characters) : characters[i].status = "error"}
    IN  IF err = {} THEN -1 ELSE (CHOOSE i \in err : TRUE) - 1

\* C25: when the matcher has a result for an expression, the result is
\* 'balanced' exactly when the brackets of the expression are properly nested
\* and matched (none at all counts as balanced); an 'unbalanced' result is
\* given at the first closing bracket that cannot be matched, which is then
\* the only character marked as error, with every character before it
\* processed, or, when there is no such bracket, at the end of the input with
\* the unmatched opening brackets on the stack.
C25_MatcherResult ==
    pmResult # "null" =>
        /\ ~pmIsRunning
        /\ pmTimer = "none"
        /\ ~IsBlank(RunInput)
        /\ (pmResult = "balanced") <=> Nested(Brackets(RunInput))
        /\ pmResult = "balanced" => (ErrorIndex = -1 /\ pmStack = <<>>)
        /\ pmResult = "unbalanced" =>
              /\ ErrorIndex = FirstBadIndex(RunInput)
              /\ Cardinality({i \in 1..Len(characters) :
                                  characters[i].status = "error"}) <= 1
              /\ ErrorIndex # -1 =>
                    /\ characters[ErrorIndex + 1].type = "closing"
                    /\ pmMessage[1] \in {"EmptyStack", "Mismatch"}
                    /\ (pmMessage[1] = "EmptyStack") <=> (pmStack = <<>>)
                    /\ \A i \in 1..ErrorIndex : characters[i].status = "processed"
              /\ ErrorIndex = -1 =>
                    /\ pmMessage = <<"StackNotEmpty", Len(pmStack)>>
                    /\ pmStack # <<>>
                    /\ \A i \in 1..Len(pmStack) : pmStack[i].char \in OPENING_BRACKETS

\* Runs of each kind have ended: balanced after a nested pair, and unbalanced
\* by a closing bracket that does not match the top of a stack of two.
C25_Witness ==
    /\ pmResult = "unbalanced"
    /\ pmMessage[1] = "Mismatch"
    /\ Len(pmStack) = 2
    /\ ErrorIndex = 3

(***************************************************************************)
(* Stack: src/src/components/StackVisualizer.tsx (StackVisualizer)         *)
(***************************************************************************)
\* Bounds of the stack model: the tokens of one Load, the elements created
\* in all, and the timeouts pending at once.
MaxLoadLen == 2

MaxStackIds == 3

MaxPendingTimeouts == 2

MaxPendingMessages == 1

\* A StackElement; isAnimating is FALSE where the code leaves it undefined.
StackElement(id, value, isAnimating) ==
    [id |-> id, value |-> value, isAnimating |-> isAnimating]

\* { id: element.id, value: element.value }
CleanElement(el) == StackElement(el.id, el.value, FALSE)

\* prev.filter((el) => el.id !== id)
WithoutId(s, id) ==
    LET keep(el) == el.id # id
    IN  SelectSeq(s, keep)

\* values.map((value) => ({ id: idCounter.current++, value }))
NewElements(values, firstId) ==
    [i \in 1..Len(values) |-> StackElement(firstId + i - 1, values[i], FALSE)]

\* prev.slice(0, -1)
SliceOffLast(s) == SubSeq(s, 1, Len(s) - 1)

\* The updater of handlePop that marks the top as animating.
MarkTopAnimating(s) ==
    IF s = <<>> THEN s ELSE [s EXCEPT ![Len(s)].isAnimating = TRUE]

SKInit ==
    /\ sourceArray = <<>>
    /\ skStack = <<>>
    /\ poppedElements = <<>>
    /\ skMessage = <<"null">>
    /\ animatingElement = Nil
    /\ skIdCounter = 0
    /\ skTimeouts = <<>>
    /\ skMessageTimeouts = 0

\* showMessage(msg): the message and its 2000 ms timeout.
ShowMessageSK(msg) ==
    /\ skMessage' = msg
    /\ skMessageTimeouts' = skMessageTimeouts + 1

\* handleLoadElements on the tokens typed (NaN: a token parseFloat rejects).
HandleLoadElements(tokens) ==
    LET isNumber(v) == v # NaN
        values == SelectSeq(tokens, isNumber)
    IN  /\ skMessageTimeouts < MaxPendingMessages
        /\ skIdCounter + Len(values) <= MaxStackIds
        /\ IF Len(values) = 0
           THEN /\ ShowMessageSK(<<"EnterValidNumbers">>)
                /\ UNCHANGED <<sourceArray, skIdCounter>>
           ELSE /\ sourceArray' = NewElements(values, skIdCounter)
                /\ skIdCounter' = skIdCounter + Len(values)
                /\ ShowMessageSK(<<"Loaded", Len(values)>>)
        /\ UNCHANGED <<skStack, poppedElements, animatingElement, skTimeouts, othersSK>>

\* handlePush(element), the click on an element of the source array.
HandlePush(element) ==
    /\ Len(skTimeouts) < MaxPendingTimeouts
    /\ sourceArray' = WithoutId(sourceArray, element.id)
    /\ animatingElement' = StackElement(element.id, element.value, TRUE)
    /\ skTimeouts' = Append(skTimeouts, [kind |-> "push", el |-> CleanElement(element)])
    /\ UNCHANGED <<skStack, poppedElements, skMessage, skIdCounter, skMessageTimeouts,
                   othersSK>>

\* handlePop; the button is disabled on an empty stack.  topElement is read
\* from the stack of the render the click happened in.
HandlePop ==
    /\ skStack # <<>>
    /\ Len(skTimeouts) < MaxPendingTimeouts
    /\ IF Len(skStack) = 0
       THEN /\ ShowMessageSK(<<"StackUnderflow">>)
            /\ UNCHANGED <<skStack, skTimeouts>>
       ELSE /\ skStack' = MarkTopAnimating(skStack)
            /\ skTimeouts' = Append(skTimeouts,
                                    [kind |-> "pop", el |-> CleanElement(Last(skStack))])
            /\ UNCHANGED <<skMessage, skMessageTimeouts>>
    /\ UNCHANGED <<sourceArray, poppedElements, animatingElement, skIdCounter, othersSK>>

\* The timeout of handlePush fires: the element goes onto the stack.
PushTimeoutFires ==
    /\ skTimeouts # <<>>
    /\ Head(skTimeouts).kind = "push"
    /\ skStack' = Append(skStack, Head(skTimeouts).el)
    /\ animatingElement' = Nil
    /\ skTimeouts' = Tail(skTimeouts)
    /\ UNCHANGED <<sourceArray, poppedElements, skMessage, skIdCounter, skMessageTimeouts,
                   othersSK>>

\* The timeout of handlePop fires: the stack loses its last element and the
\* popped list gets the element the click read.
PopTimeoutFires ==
    /\ skTimeouts # <<>>
    /\ Head(skTimeouts).kind = "pop"
    /\ skStack' = SliceOffLast(skStack)
    /\ poppedElements' = Append(poppedElements, Head(skTimeouts).el)
    /\ skTimeouts' = Tail(skTimeouts)
    /\ UNCHANGED <<sourceArray, skMessage, animatingElement, skIdCounter,
                   skMessageTimeouts, othersSK>>

\* The timeout of showMessage fires.
MessageTimeoutFires ==
    /\ skMessageTimeouts > 0
    /\ skMessage' = <<"null">>
    /\ skMessageTimeouts' = skMessageTimeouts - 1
    /\ UNCHANGED <<sourceArray, skStack, poppedElements, animatingElement, skIdCounter,
                   skTimeouts, othersSK>>

\* handleClear; the pending timeouts stay scheduled.
HandleClear ==
    /\ sourceArray' = <<>>
    /\ skStack' = <<>>
    /\ poppedElements' = <<>>
    /\ skMessage' = <<"null">>
    /\ UNCHANGED <<animatingElement, skIdCounter, skTimeouts, skMessageTimeouts, othersSK>>

\* handleClearSourceArray; the button exists while the array is not empty.
HandleClearSourceArray ==
    /\ sourceArray # <<>>
    /\ sourceArray' = <<>>
    /\ UNCHANGED <<skStack, poppedElements, skMessage, animatingElement, skIdCounter,
                   skTimeouts, skMessageTimeouts, othersSK>>

\* handleClearSingleSource(id)
HandleClearSingleSource(id) ==
    /\ sourceArray' = WithoutId(sourceArray, id)
    /\ UNCHANGED <<skStack, poppedElements, skMessage, animatingElement, skIdCounter,
                   skTimeouts, skMessageTimeouts, othersSK>>

\* handleClearPoppedElements; the button exists while the list is not empty.
HandleClearPoppedElements ==
    /\ poppedElements # <<>>
    /\ poppedElements' = <<>>
    /\ UNCHANGED <<sourceArray, skStack, skMessage, animatingElement, skIdCounter,
                   skTimeouts, skMessageTimeouts, othersSK>>

\* handleClearSinglePopped(id)
HandleClearSinglePopped(id) ==
    /\ poppedElements' = WithoutId(poppedElements, id)
    /\ UNCHANGED <<sourceArray, skStack, skMessage, animatingElement, skIdCounter,
                   skTimeouts, skMessageTimeouts, othersSK>>

\* The clicks on Load, on the elements and on Pop, and the timeouts.  Timeouts
\* of equal delay fire in the order they were scheduled.
NextStack ==
    \/ \E tokens \in SeqsUpTo({NaN, 10, 20}, MaxLoadLen) : HandleLoadElements(tokens)
    \/ \E i \in 1..Len(sourceArray) : HandlePush(sourceArray[i])
    \/ HandlePop
    \/ PushTimeoutFires
    \/ PopTimeoutFires
    \/ MessageTimeoutFires
    \/ HandleClear
    \/ HandleClearSourceArray
    \/ \E i \in 1..Len(sourceArray) : HandleClearSingleSource(sourceArray[i].id)
    \/ HandleClearPoppedElements
    \/ \E i \in 1..Len(poppedElements) : HandleClearSinglePopped(poppedElements[i].id)

\* The ids of a list of elements, in list order.
IdsOf(s) == [i \in 1..Len(s) |-> s[i].id]

\* C34: under any interleaving of push and pop clicks with their 400 ms
\* timeouts, every pop moves exactly the element on top of the stack to the
\* popped list, and no element appears twice across the source array, the
\* stack and the popped list.
C34_PopMovesTop ==
    [][/\ Len(poppedElements') = Len(poppedElements) + 1 =>
             /\ skStack # <<>>
             /\ skStack' = SliceOffLast(skStack)
             /\ poppedElements' = Append(poppedElements, CleanElement(Last(skStack)))
             /\ Last(poppedElements').id = Head(skTimeouts).el.id
       /\ NoDup(IdsOf(sourceArray') \o IdsOf(skStack') \o IdsOf(poppedElements'))]_vars

(***************************************************************************)
(* The trace generators on any input                                       *)
(***************************************************************************)
\* Bound of the generator inputs: edge lists of up to MaxEdges edges.
MaxEdges == 2

\* The node ids the lists are drawn from: one-digit and two-digit ids.
IdPool == {2, 9, 10}

\* Any node list with ids of IdPool in ascending order, any list of up to
\* MaxEdges edges between ids of IdPool (in the node list or not, from the
\* smaller id to the larger, loops included) and any start id: the inputs of
\* getAdjList, generateStepsBFS and generateStepsDFS.
AnyListsInit ==
    /\ nodes \in {s \in SeqsUpTo(IdPool, Cardinality(IdPool)) : StrictlyAscending(s)}
    /\ edges \in SeqsUpTo({Edge(p[1], p[2]) : p \in {q \in IdPool \X IdPool : q[1] <= q[2]}},
                        MaxEdges)
    /\ startId \in IdPool
    /\ activeNode = Null
    /\ visited = <<>>
    /\ queueStack = <<>>
    /\ algorithm = "none"
    /\ gMessage = <<"Select">>
    /\ isPlaying = FALSE
    /\ stepsRef = <<>>
    /\ stepIndexRef = 0

\* Trace generation alone, for the graph and for the tree.
NextGenerators ==
    \/ \E type \in {"BFS", "DFS"} : StartAlgo(type)
    \/ \E type \in TraversalTypes : StartTraversal(type)

\* s is an initial part of t.
IsPrefix(s, t) == Len(s) <= Len(t) /\ s = SubSeq(t, 1, Len(s))

\* The values of the visit steps of a tree trace, in trace order.
RECURSIVE VisitValues(_)
VisitValues(steps) ==
    IF steps = <<>> THEN <<>>
    ELSE (IF Head(steps).visited # Null THEN <<Head(steps).visited>> ELSE <<>>)
         \o VisitValues(Tail(steps))

\* C11: every BFS, DFS and tree-traversal trace ends with the complete step
\* and has it nowhere else: active node null and, for BFS and DFS, an empty
\* queue or stack and a visited list that every earlier visited list is an
\* initial part of (for DFS the popped nodes in order); the visit steps of a
\* tree trace are one of the three standard walks.
C11_TracesEndComplete ==
    /\ stepsRef # <<>> =>
          LET last == Last(stepsRef)
          IN  /\ last.active = Null
              /\ last.struct = <<>>
              /\ last.msg \in {<<"BFSComplete">>, <<"DFSComplete">>}
              /\ NoDup(last.visited)
              /\ \A i \in 1..(Len(stepsRef) - 1) :
                    /\ stepsRef[i].msg[1] \notin {"BFSComplete", "DFSComplete"}
                    /\ IsPrefix(stepsRef[i].visited, last.visited)
                    /\ (stepsRef[i].active = Null => stepsRef[i].struct # <<>>)
              /\ IsDFSTrace(stepsRef) => last.visited = PoppedNodes(stepsRef)
    /\ \A type \in TraversalTypes :
          LET steps == generateSteps(treeData, type)
          IN  /\ Last(steps) = TStep(Null, <<"TraversalComplete">>, Null)
              /\ \A i \in 1..(Len(steps) - 1) : steps[i].nodeId # Null
    /\ ttStepsRef # <<>> =>
          /\ Last(ttStepsRef).nodeId = Null
          /\ Last(ttStepsRef).msg = <<"TraversalComplete">>
          /\ VisitValues(ttStepsRef) \in
                {Preorder(treeData), Inorder(treeData), Postorder(treeData)}

\* A DFS trace and a tree trace, each of more than the start and complete steps.
C11_Witness ==
    /\ IsDFSTrace(stepsRef)
    /\ Len(stepsRef) >= 5
    /\ Len(ttStepsRef) >= 4
    /\ Len(VisitValues(ttStepsRef)) >= 2

\* C12: for every node list and edge list, every neighbour list getAdjList
\* returns is in ascending numeric order of id, and b is in adj[a] exactly
\* when a is in adj[b].
C12_AdjSortedNumerically ==
    ~AdjThrows(nodes, edges) =>
        LET adj == getAdjList(nodes, edges)
        IN  /\ \A k \in DOMAIN adj :
                  \A i \in 1..(Len(adj[k]) - 1) : adj[k][i] <= adj[k][i + 1]
            /\ \A a \in DOMAIN adj : \A b \in DOMAIN adj :
                  (b \in Range(adj[a])) <=> (a \in Range(adj[b]))

\* C13: when an edge names an id that is not in the node list, the adjacency
\* builder does not throw: startAlgo gets its trace and starts playing.
C13_MissingIdDoesNotThrow ==
    algorithm # "none" => (stepsRef # <<>> /\ isPlaying)

\* The start id is in no adjacency list entry, or its entry is empty.
IsolatedStart ==
    /\ ~AdjThrows(nodes, edges)
    /\ NeighborsOf(getAdjList(nodes, edges), startId) = <<>>

Shown == [active |-> activeNode, visited |-> visited, struct |-> queueStack, msg |-> gMessage]

\* What reset() leaves on show.
ShownCleared == [active |-> Null, visited |-> <<>>, struct |-> <<>>, msg |-> <<"Select">>]

\* C21: in the BFS/DFS player the step index moves only by one, on a tick
\* while playing, and that tick shows exactly the step of the trace at the old
\* index (so the steps are shown in trace order, none skipped or repeated,
\* whatever pauses and resumes lie between), or back to 0 when a traversal is
\* started; what is shown changes only by such a tick or by being cleared;
\* the trace changes only when a traversal is started, never by playback; a
\* step taken while playing with every step applied stops the playback and
\* shows nothing new; and playback that keeps running stops.
C21_PlayerInOrder ==
    /\ [][/\ stepIndexRef' # stepIndexRef =>
                \/ /\ stepIndexRef' = stepIndexRef + 1
                   /\ stepIndexRef < Len(stepsRef)
                   /\ stepsRef' = stepsRef
                   /\ isPlaying /\ isPlaying'
                   /\ Shown' = stepsRef[stepIndexRef + 1]
                \/ /\ stepIndexRef' = 0
                   /\ algorithm' \in {"BFS", "DFS"}
                   /\ Shown' = ShownCleared
          /\ Shown' # Shown =>
                \/ stepIndexRef' = stepIndexRef + 1 /\ Shown' = stepsRef[stepIndexRef + 1]
                \/ Shown' = ShownCleared
          /\ stepsRef' # stepsRef =>
                /\ ~isPlaying
                /\ algorithm' \in {"BFS", "DFS"}
                /\ stepIndexRef' = 0
          /\ (isPlaying /\ stepIndexRef >= Len(stepsRef)) =>
                /\ ~isPlaying'
                /\ stepIndexRef' = stepIndexRef
                /\ Shown' \in {Shown, ShownCleared}]_vars
    /\ isPlaying ~> ~isPlaying

\* A trace was paused midway, resumed and played to its end: every step is
\* applied, the last one is on show and the playback has stopped.
C21_Witness ==
    /\ stepsRef # <<>>
    /\ stepIndexRef = Len(stepsRef)
    /\ Shown = Last(stepsRef)
    /\ ~isPlaying

\* C22: between Reset and the next start of BFS or DFS the player applies no
\* step: the active node is null, the visited list and the queue or stack are
\* empty, also when Play is pressed.
C22_NoStepAfterReset ==
    algorithm = "none" => (activeNode = Null /\ visited = <<>> /\ queueStack = <<>>)

\* The standard recursive walk of an order.
StandardWalk(tree, type) ==
    IF type = "preorder" THEN Preorder(tree)
    ELSE IF type = "inorder" THEN Inorder(tree)
    ELSE Postorder(tree)

\* The node ids of the visit steps of a tree trace, in trace order.
RECURSIVE VisitIds(_)
VisitIds(steps) ==
    IF steps = <<>> THEN <<>>
    ELSE (IF Head(steps).visited # Null THEN <<Head(steps).nodeId>> ELSE <<>>)
         \o VisitIds(Tail(steps))

\* C23: for every tree and each of the three orders, the values of the visit
\* steps of generateSteps, in trace order, are the standard recursive walk of
\* that order, and every node is visited exactly once; the trace a started
\* traversal plays is that trace.
C23_VisitOrder ==
    /\ \A type \in TraversalTypes :
          LET steps == generateSteps(treeData, type)
          IN  /\ VisitValues(steps) = StandardWalk(treeData, type)
              /\ NoDup(VisitIds(steps))
              /\ Range(VisitIds(steps)) = {n.id : n \in Nodes(treeData)}
    /\ ttStepsRef # <<>> =>
          \E type \in TraversalTypes :
              /\ ttMessage = <<"Starting", type>>
              /\ VisitValues(ttStepsRef) = StandardWalk(treeData, type)
              /\ Len(VisitIds(ttStepsRef)) = Cardinality(Nodes(treeData))

\* An inorder traversal was started on a tree of three nodes whose three
\* walks differ.
C23_Witness ==
    /\ ttMessage = <<"Starting", "inorder">>
    /\ Len(VisitValues(ttStepsRef)) = 3
    /\ Preorder(treeData) # Inorder(treeData)
    /\ Postorder(treeData) # Inorder(treeData)
    /\ Preorder(treeData) # Postorder(treeData)

\* C24: in each of the three orders, for every node X with a left child the
\* trace has a 'go left from X' step followed at once by a step at that
\* child, and for every node X with a right child a 'go right from X' step
\* followed at once by a step at that child.
C24_GoStepsInEveryOrder ==
    \A type \in TraversalTypes :
        LET steps == generateSteps(treeData, type)
        IN  \A n \in Nodes(treeData) :
                /\ ~IsNil(n.left) =>
                      \E i \in 1..(Len(steps) - 1) :
                          /\ steps[i] = TStep(n.id, <<"GoLeft", n.value>>, Null)
                          /\ steps[i + 1].nodeId = n.left.id
                /\ ~IsNil(n.right) =>
                      \E i \in 1..(Len(steps) - 1) :
                          /\ steps[i] = TStep(n.id, <<"GoRight", n.value>>, Null)
                          /\ steps[i + 1].nodeId = n.right.id

\* C32: once a started traversal has been played to its last step, the
\* accumulated output list is the values of the trace's visit steps in order,
\* the first step's included, whatever was played or reset before the start.
C32_OutputAfterPlayback ==
    (ttStepsRef # <<>> /\ currentStepIndex = Len(ttStepsRef) - 1)
    => visitedNodes = VisitValues(ttStepsRef)

\* The ids put on the queue or stack along a trace, in trace order: the last
\* element of every struct that is longer than the one of the step before.
RECURSIVE PushedIds(_, _)
PushedIds(steps, before) ==
    IF steps = <<>> THEN <<>>
    ELSE (IF Len(Head(steps).struct) > Len(before)
          THEN <<Last(Head(steps).struct)>> ELSE <<>>)
         \o PushedIds(Tail(steps), Head(steps).struct)

\* C29: in every step of a BFS or DFS trace the visited list holds no id
\* twice and starts with the whole visited list of the step before; in a BFS
\* trace every id on the queue is in the step's visited list, the queue holds
\* no id twice, it changes only by losing its front or gaining one id at its
\* rear, and no id is put on it twice.
C29_VisitedGrowsOnly ==
    stepsRef # <<>> =>
        /\ \A i \in 1..Len(stepsRef) : NoDup(stepsRef[i].visited)
        /\ \A i \in 2..Len(stepsRef) :
              IsPrefix(stepsRef[i - 1].visited, stepsRef[i].visited)
        /\ IsBFSTrace(stepsRef) =>
              /\ \A i \in 1..Len(stepsRef) :
                    /\ Range(stepsRef[i].struct) \subseteq Range(stepsRef[i].visited)
                    /\ NoDup(stepsRef[i].struct)
              /\ \A i \in 2..Len(stepsRef) :
                    LET p == stepsRef[i - 1].struct
                        q == stepsRef[i].struct
                    IN  \/ p # <<>> /\ q = Tail(p)
                        \/ Len(q) = Len(p) + 1 /\ p = SubSeq(q, 1, Len(p))
                        \/ q = p /\ q = <<>>
              /\ NoDup(PushedIds(stepsRef, <<>>))
              /\ PushedIds(stepsRef, <<>>) = Last(stepsRef).visited

\* A BFS trace on a graph with a cycle through all of its four nodes.
C29_Witness ==
    /\ IsBFSTrace(stepsRef)
    /\ Len(Last(stepsRef).visited) = 4
    /\ Len(edges) >= 4
    /\ \E i \in 1..Len(stepsRef) : Len(stepsRef[i].struct) >= 2

(***************************************************************************)
(* handleConstructTree on any typed input                                  *)
(***************************************************************************)
\* Bound: the number of tokens typed into one field.
MaxTokens == 3

\* The tokens typed: numbers, and NaN for a token parseInt does not read.
TokenPool == {NaN, 1, 2, 3}

\* How many tokens of a field are not numbers.
NaNCount(tokens) == Cardinality({i \in 1..Len(tokens) : tokens[i] = NaN})

\* The tree on display when the fields are typed: the one handleConstructTree
\* built in the mode from the walks of the tree 2(1, 3).
displayedTree(mode) ==
    IF mode = "pre-in" THEN buildFromPreIn(<<2, 1, 3>>, <<1, 2, 3>>, 0).node
    ELSE buildFromPostIn(<<1, 3, 2>>, <<1, 2, 3>>, 0).node

\* A traversal mode with a constructed tree on display and any tokens, of
\* which at most one is not a number, typed into the two fields.
AnyInputsInit ==
    /\ tvMode \in {"pre-in", "post-in"}
    /\ traversalInput1 \in SeqsUpTo(TokenPool, MaxTokens)
    /\ traversalInput2 \in SeqsUpTo(TokenPool, MaxTokens)
    /\ NaNCount(traversalInput1) + NaNCount(traversalInput2) <= 1
    /\ tvRoot = displayedTree(tvMode)
    /\ tvIdCounter = 3
    /\ tvMessage = <<"Constructed">>
    /\ original = Nil

NextConstruct ==
    \/ HandleConstructTree
    \/ HandleResetTV

\* The two parsed arrays pass the checks of lines 377-398.
Validated(arr1, arr2) ==
    /\ Len(arr1) > 0
    /\ Len(arr1) = Len(arr2)
    /\ NoDup(arr1)
    /\ Range(arr1) = Range(arr2)

\* Some tree has arr1 as its preorder (postorder in post-in mode) and arr2 as
\* its inorder.
WalksOfATree(arr1, arr2, mode) ==
    \E t \in TreesOver(Range(arr1)) :
        /\ Inorder(t) = arr2
        /\ (IF mode = "pre-in" THEN Preorder(t) ELSE Postorder(t)) = arr1

\* A value that occurs twice in the array.
Duplicated(arr) == {arr[i] : i \in {k \in 1..Len(arr) : \E j \in 1..Len(arr) : j # k /\ arr[j] = arr[k]}}

\* C18: handleConstructTree on arrays that differ in length, hold a value
\* twice, or are not set-equal creates no node and leaves the tree on display,
\* and its message names a violated condition and, for a duplicate or a set
\* mismatch, a value that is duplicated or in one array only.
C18_RejectionNamesValue ==
    [][LET arr1 == ParseList(traversalInput1)
           arr2 == ParseList(traversalInput2)
           dups == Duplicated(arr1) \cup Duplicated(arr2)
           odd  == (Range(arr1) \ Range(arr2)) \cup (Range(arr2) \ Range(arr1))
       IN  (/\ UNCHANGED <<traversalInput1, traversalInput2>>
            /\ Len(arr1) > 0 /\ Len(arr2) > 0
            /\ (Len(arr1) # Len(arr2) \/ dups # {} \/ odd # {}))
           => /\ tvRoot' = tvRoot
              /\ tvIdCounter' = tvIdCounter
              /\ \/ Len(arr1) # Len(arr2) /\ tvMessage' = <<"SameLength">>
                 \/ \E v \in dups : tvMessage' = <<"Duplicate", v>>
                 \/ \E v \in odd : tvMessage' = <<"NotInOther", v>>]_vars

\* C19: when the arrays pass the checks and the builder of the mode misses a
\* root value in its inorder slice (which is when no tree has these walks),
\* handleConstructTree shows 'not found in inorder' and the tree on display
\* stays as it was.
C19_NotFoundInInorder ==
    [][LET arr1 == ParseList(traversalInput1)
           arr2 == ParseList(traversalInput2)
           b    == IF tvMode = "pre-in" THEN buildFromPreIn(arr1, arr2, 0)
                   ELSE buildFromPostIn(arr1, arr2, 0)
       IN  (/\ UNCHANGED <<traversalInput1, traversalInput2>>
            /\ Validated(arr1, arr2)
            /\ (~b.ok \/ ~WalksOfATree(arr1, arr2, tvMode)))
           => /\ ~b.ok
              /\ IsNil(b.node)
              /\ tvMessage' = <<"NotFoundInInorder">>
              /\ tvRoot' = tvRoot]_vars

\* Three values in an order no tree has were constructed with a tree on
\* display: the message is shown and the tree is still there.
C19_Witness ==
    /\ tvMessage = <<"NotFoundInInorder">>
    /\ Len(traversalInput1) = 3
    /\ Validated(ParseList(traversalInput1), ParseList(traversalInput2))
    /\ tvRoot = displayedTree(tvMode)
    /\ ~IsNil(tvRoot)

\* C20: handleConstructTree on a field with a token that is not a number
\* builds nothing: no node is created, no tree is displayed from the other
\* tokens.
C20_NonNumericTokenRejected ==
    [][(/\ UNCHANGED <<traversalInput1, traversalInput2>>
        /\ NaNCount(traversalInput1) + NaNCount(traversalInput2) > 0)
       => /\ tvRoot' = tvRoot
          /\ tvIdCounter' = tvIdCounter
          /\ tvMessage' # <<"Constructed">>]_vars

\* C36: whenever handleConstructTree gets past its checks (equal lengths, no
\* value twice in the first array, every value of the first array in the
\* second) and calls a builder, the second array holds no value twice either
\* and the two arrays hold the same values.
C36_OneSidedChecksSuffice ==
    [][LET arr1 == ParseList(traversalInput1)
           arr2 == ParseList(traversalInput2)
       IN  (/\ UNCHANGED <<traversalInput1, traversalInput2>>
            /\ tvMessage' \in {<<"Constructed">>, <<"NotFoundInInorder">>})
           => /\ Len(arr1) > 0
              /\ Len(arr1) = Len(arr2)
              /\ NoDup(arr1)
              /\ NoDup(arr2)
              /\ Range(arr1) = Range(arr2)]_vars

\* Two arrays of three values got past the checks and the builder made a
\* tree other than the one that was on display.
C36_Witness ==
    /\ tvMessage = <<"Constructed">>
    /\ tvRoot # displayedTree(tvMode)
    /\ Len(ParseList(traversalInput1)) = 3
    /\ Len(ParseList(traversalInput2)) = 3
    /\ tvIdCounter = 3

\* C37: for arrays that pass the checks, whenever the builder of the mode
\* returns a tree without an error, the tree's preorder (postorder in
\* post-in mode) is the first array, its inorder is the second, it has one
\* node per array element and no two nodes share an id; that tree is the one
\* put on display.
C37_BuiltTreeHasTheWalks ==
    [][LET arr1 == ParseList(traversalInput1)
           arr2 == ParseList(traversalInput2)
           b    == IF tvMode = "pre-in" THEN buildFromPreIn(arr1, arr2, 0)
                   ELSE buildFromPostIn(arr1, arr2, 0)
       IN  (/\ UNCHANGED <<traversalInput1, traversalInput2>>
            /\ tvMode # "manual"
            /\ Validated(arr1, arr2)
            /\ b.ok)
           => /\ (IF tvMode = "pre-in" THEN Preorder(b.node) ELSE Postorder(b.node)) = arr1
              /\ Inorder(b.node) = arr2
              /\ Cardinality(Nodes(b.node)) = Len(arr1)
              /\ Cardinality({n.id : n \in Nodes(b.node)}) = Len(arr1)
              /\ tvRoot' = b.node
              /\ tvMessage' = <<"Constructed">>]_vars

\* A tree of three nodes whose root has a left child only was built in
\* post-in mode in the place of the tree on display.
C37_Witness ==
    /\ tvMode = "post-in"
    /\ tvMessage = <<"Constructed">>
    /\ tvRoot # displayedTree(tvMode)
    /\ Postorder(tvRoot) = ParseList(traversalInput1)
    /\ Len(ParseList(traversalInput1)) = 3
    /\ ~IsNil(tvRoot.left)
    /\ IsNil(tvRoot.right)

(***************************************************************************)
(* Reset and the timeouts of a run: BinaryNumbersVisualizer (part_000),    *)
(* TwoSumVisualizer (SignIn.tsx), CycleDetectionVisualizer (part_003)      *)
(***************************************************************************)
\* The callbacks of the timeouts a run schedules, by component.
TimerCallbackBN == StartFires \/ DequeueFires \/ UnhighlightFires \/ NextStepFires

TimerCallbackTS == ProcessStepFires \/ CheckFires \/ AdvanceFires

TimerCallbackCD == DetectStepFires \/ FinishFires

\* Each visualizer is the element of its own route (App.tsx:25, 31, 34): one
\* of them is mounted at a time, the others are in the state of their
\* construction.
NextTimers ==
    \/ TSInit /\ CDInit /\ NextBinary
    \/ BNInit /\ CDInit /\ NextTwoSum
    \/ BNInit /\ TSInit /\ NextCycle

\* C33: once Reset is pressed during a run, no timeout callback of that run
\* changes the queue, output, hash map, pointers or result afterwards, also
\* when a new run is started early.  A callback runs only while its run is
\* running and not stopped; a callback is pending only then; between Reset
\* and the next start nothing is pending and what is shown changes by the
\* user's handlers only; and a handler stores a new timeout only when none
\* is pending, so every pending callback belongs to the current run.
C33_NoCallbackAfterReset ==
    [][/\ TimerCallbackBN => (bnIsRunning /\ ~bnIsStopped)
       /\ TimerCallbackTS => (tsIsRunning /\ ~tsIsStopped)
       /\ TimerCallbackCD => (cdIsRunning /\ ~cdIsStopped)
       /\ bnTimer' # "none" => (bnIsRunning' /\ ~bnIsStopped')
       /\ tsTimer' # "none" => (tsIsRunning' /\ ~tsIsStopped')
       /\ cdTimer' # "none" => (cdIsRunning' /\ ~cdIsStopped')
       /\ (bnTimer # "none" /\ bnTimer' # "none") => TimerCallbackBN
       /\ (tsTimer # "none" /\ tsTimer' # "none") => TimerCallbackTS
       /\ (cdTimer # "none" /\ cdTimer' # "none") => TimerCallbackCD
       /\ (bnIsStopped /\ bnIsStopped') =>
             UNCHANGED <<bnQueue, output, isComplete, count, resultQueue>>
       /\ (tsIsStopped /\ tsIsStopped') =>
             UNCHANGED <<tsArray, tsHashMap, tsResult, tsCurrentIndex, tempHashMap>>
       /\ (cdIsStopped /\ cdIsStopped') =>
             (UNCHANGED <<cdResult, cdSlow, cdFast, cdIterations>>
              \/ \E input \in 1..MaxListLen : HandleCreateList(input))]_vars

\* Reset was pressed in the middle of a binary-number run: the run's closure
\* is left after its first dequeues and before its last, nothing is pending
\* and the queue and the output are cleared.
C33_Witness ==
    /\ bnIsStopped
    /\ ~bnIsRunning
    /\ bnTimer = "none"
    /\ count >= 1
    /\ count < bnN
    /\ resultQueue # <<>>
    /\ bnQueue = <<>>
    /\ output = <<>>

(***************************************************************************)
(* Specifications                                                          *)
(***************************************************************************)
\* The state after every component has been constructed.
Init ==
    /\ AVLInit
    /\ GraphInit
    /\ TVInit
    /\ CDInit
    /\ TSInit
    /\ BNInit
    /\ TTInit
    /\ PMInit
    /\ SKInit

\* The AVL tree visualizer, driven by its buttons.
SpecAVL == Init /\ [][NextAVL]_vars
SpecAVLInsert == Init /\ [][NextAVLInsert]_vars

\* The BFS/DFS player on the default graph.
SpecPlayer == Init /\ [][NextGraph]_vars

\* The player with its interval: while isPlaying the interval of the
\* useEffect on [isPlaying] keeps calling nextStep.
SpecPlayerFair == Init /\ [][NextGraph]_vars /\ WF_vars(NextStep)

\* The BFS/DFS generators on any small graph and any start node.
InitGraph ==
    /\ AVLInit
    /\ AnyGraphInit
    /\ TVInit
    /\ CDInit
    /\ TSInit
    /\ BNInit
    /\ TTInit
    /\ PMInit
    /\ SKInit

SpecGraph == InitGraph /\ [][NextTraversal]_vars

\* The graphs of the Random Graph button and the traversals on them.
SpecRandom == Init /\ [][NextRandom]_vars

\* The reconstruction of any small tree from its walks.
InitRecon ==
    /\ AVLInit
    /\ GraphInit
    /\ AnyTreeInit
    /\ CDInit
    /\ TSInit
    /\ BNInit
    /\ TTInit
    /\ PMInit
    /\ SKInit

SpecRecon == InitRecon /\ [][NextRecon]_vars

SpecCycle == Init /\ [][NextCycle]_vars

\* The three visualizers with timeouts, one mounted at a time.
SpecTimers == Init /\ [][NextTimers]_vars

\* Two Sum on any array and target.
InitTwoSum ==
    /\ AVLInit
    /\ GraphInit
    /\ TVInit
    /\ CDInit
    /\ AnyTwoSumInit
    /\ BNInit
    /\ TTInit
    /\ PMInit
    /\ SKInit

SpecTwoSum == InitTwoSum /\ [][NextTwoSum]_vars

\* Binary numbers for any N typed.
InitBinary ==
    /\ AVLInit
    /\ GraphInit
    /\ TVInit
    /\ CDInit
    /\ TSInit
    /\ AnyBinaryInit
    /\ TTInit
    /\ PMInit
    /\ SKInit

SpecBinary == InitBinary /\ [][NextBinary]_vars

\* The tree traversal player on the predefined tree.
SpecTreePlayer == Init /\ [][NextTreePlayer]_vars

\* The trace generators on any node and edge lists, and on any small tree.
InitGenerators ==
    /\ AVLInit
    /\ TVInit
    /\ CDInit
    /\ TSInit
    /\ BNInit
    /\ PMInit
    /\ SKInit
    /\ \/ AnyListsInit /\ TTInit
       \/ GraphInit /\ AnyTreeDataInit

SpecGenerators == InitGenerators /\ [][NextGenerators]_vars

\* handleConstructTree on any typed input, with a tree on display.
InitConstruct ==
    /\ AVLInit
    /\ GraphInit
    /\ AnyInputsInit
    /\ CDInit
    /\ TSInit
    /\ BNInit
    /\ TTInit
    /\ PMInit
    /\ SKInit

SpecConstruct == InitConstruct /\ [][NextConstruct]_vars

\* The parentheses matcher on any expression.
InitMatcher ==
    /\ AVLInit
    /\ GraphInit
    /\ TVInit
    /\ CDInit
    /\ TSInit
    /\ BNInit
    /\ TTInit
    /\ AnyExprInit
    /\ SKInit

SpecMatcher == InitMatcher /\ [][NextMatcher]_vars

\* The stack visualizer: its clicks and its timeouts.
SpecStack == Init /\ [][NextStack]_vars

====
